---- MODULE Spec2Model ----
(***************************************************************************)
(* Human Pages MCP server: the tool handlers of createServer() (tools.ts)   *)
(* driving the Human Pages backend API.                                     *)
(*                                                                          *)
(* The tool handlers (local argument checks, the request each one sends,    *)
(* the conversion of the response into a tool result) are translated from   *)
(* the TypeScript source.  The backend that owns Agents, Jobs and streams   *)
(* is not part of the source tree; its operations, named Backend..., follow  *)
(* the protocol description in spec.md sections 3 and 4.                    *)
(***************************************************************************)
EXTENDS Integers, Sequences, FiniteSets, TLC

(***************************************************************************)
(* Bounds of the model.                                                     *)
(***************************************************************************)
MaxPrice == 2       \* offered prices and paid amounts range over 0..MaxPrice
MaxRate == 2        \* per-interval rates and tick transfer amounts: 1..MaxRate
TickBound == 3
MsgBound == 2      \* no stream records more than TickBound ticks

(***************************************************************************)
(* Value sets.                                                              *)
(***************************************************************************)
Agents == {"a1", "a2"}
NoKey == ""                     \* args.agent_key undefined or empty
KeyOf(a) == "hp_" \o a          \* the API key issued to agent a
Keys == {KeyOf(a) : a \in Agents}
AgentOfKey(k) == CHOOSE a \in Agents : KeyOf(a) = k
Absent == ""                    \* an undefined / empty string field
AllKeys == Keys \cup {NoKey}     \* what an agent_key argument can hold
Senders == {Absent, "0xsender"} \* sender_address arguments

Prices == 0..MaxPrice
Rates == 1..MaxRate
MaxTicksOptions == 0..(TickBound - 1)    \* 0 stands for null (indefinite)
TxHashes == {"0xa"}
Networks == {"base"}
Ratings == {0, 1, 5, 6}
FlowStates == {"NONE", "OK", "MISMATCH"}

JobStatuses ==
    {"NONE", "PENDING", "ACCEPTED", "REJECTED", "PAID", "STREAMING", "PAUSED",
     "COMPLETED", "CANCELLED", "DISPUTED"}
TerminalStatuses == {"REJECTED", "CANCELLED", "COMPLETED"}

\* The human every offer targets sets a minimum acceptable offer price.
HumanMinOfferPrice == MaxPrice - 1

\* The Humans that apply to the Listing; every direct offer targets h1.
Humans == {"h1", "h2"}

VARIABLES
    agents,     \* backend: agent |-> [status, tier, offersUsed]
    job,        \* backend: the Job entity (status "NONE" until it is created)
    stream,     \* backend: the Job's StreamState
    flow,       \* on-chain: the Superfluid flow from the agent to the human
    activation, \* backend: agent |-> [code, deposit], the activation requests
    listing,    \* backend: the Listing entity (status "NONE" until created)
    apps,       \* backend: human |-> status of its Application to the Listing
    call,       \* client: slot |-> the tool invocation in flight ("idle" if none)
    human       \* backend: the profile of the Human the tools look at

vars ==
    <<agents, job, stream, flow, activation, listing, apps, call, human>>

(***************************************************************************)
(* Backend entities (spec.md section 3).                                    *)
(***************************************************************************)
NoJob ==
    [status |-> "NONE", agentId |-> Absent, humanId |-> Absent, priceUsdc |-> 0,
     paymentMode |-> Absent, streamMethod |-> Absent, streamRateUsdc |-> 0,
     streamMaxTicks |-> 0, paymentTxHash |-> Absent, paymentNetwork |-> Absent,
     paymentAmount |-> 0, review |-> 0, messages |-> <<>>]

NoStream == [tickCount |-> 0, totalPaid |-> 0, pendingTick |-> 0, network |-> Absent]

\* A registered agent starts PENDING.
NewAgent ==
    [status |-> "PENDING", tier |-> "NONE", offersUsed |-> 0, listingsUsed |-> 0]

\* An agent slot nobody registered yet: its key is no credential.
NoAgent ==
    [status |-> "UNREGISTERED", tier |-> "NONE", offersUsed |-> 0,
     listingsUsed |-> 0]

\* code, deposit: "NONE", "ISSUED", "EXPIRED" or "USED".
NoActivation == [code |-> "NONE", deposit |-> "NONE", promo |-> FALSE]

NoListing ==
    [status |-> "NONE", agentId |-> Absent, budgetUsdc |-> 0, maxApplicants |-> 0]

(***************************************************************************)
(* Backend responses: ok / HTTP status and, for an error, the JSON body     *)
(* { error, code, reason, hint }; for a success the entity's new status.    *)
(***************************************************************************)
HttpStatus(code) ==
    CASE code = "AGENT_PENDING" -> 403
      [] code \in {"INVALID_KEY", "MISSING_KEY"} -> 401
      [] code \in {"NOT_JOB_OWNER", "NOT_LISTING_OWNER"} -> 403
      [] code = "NOT_FOUND" -> 404
      [] code = "RATE_LIMITED" -> 429
      [] code \in {"INVALID_STATE", "ALREADY_STOPPED", "ALREADY_REVIEWED",
                   "NOT_COMPLETED", "NO_PENDING_TICK", "ALREADY_CLOSED",
                   "APPLICATION_NOT_PENDING"} -> 409
      [] OTHER -> 400

FlowCodes == {"FLOW_NOT_FOUND", "FLOW_RATE_MISMATCH", "FLOW_STILL_ACTIVE"}

ErrorResponse(code) ==
    [ok |-> FALSE, status |-> HttpStatus(code), code |-> code,
     error |-> "msg:" \o code, reason |-> Absent,
     hint |-> IF code \in FlowCodes THEN "hint:" \o code ELSE Absent,
     message |-> Absent, jobStatus |-> Absent]

OkResponse(st, jobStatus) ==
    [ok |-> TRUE, status |-> st, code |-> Absent, error |-> Absent,
     reason |-> Absent, hint |-> Absent, message |-> Absent,
     jobStatus |-> jobStatus]

NoResponse ==
    [ok |-> FALSE, status |-> 0, code |-> Absent, error |-> Absent,
     reason |-> Absent, hint |-> Absent, message |-> Absent, jobStatus |-> Absent]

\* A Human's profile: public fields (name, availability, skills) and private
\* ones (a contact channel, a wallet address, a fiat payment handle, a social
\* link), each of them optional.
HumanRecords ==
    [name : {"Ann"}, isAvailable : BOOLEAN, skills : {Absent, "photo"},
     contactEmail : {Absent, "ann@mail"}, wallet : {Absent, "0xwallet"},
     fiat : {Absent, "paypal:ann"}, linkedinUrl : {Absent, "in/ann"}]

\* A profile as its Human first fills it in: public fields only.
NewHuman ==
    [name |-> "Ann", isAvailable |-> TRUE, skills |-> "photo",
     contactEmail |-> Absent, wallet |-> Absent, fiat |-> Absent,
     linkedinUrl |-> Absent]

\* The tool invocations that can be in flight at once.
Slots == {1, 2}

\* No result yet.
NoResult == [isError |-> FALSE, text |-> Absent]

\* No tool invocation is in flight.
\* What an activation-status answer says of the agent.
NoBody == [status |-> Absent, tier |-> Absent]

\* agentKey: the handler's local const agentKey; requests: what it has sent.
NoCall ==
    [phase |-> "idle", txHash |-> Absent, amount |-> 0, res |-> NoResponse,
     result |-> NoResult, agentKey |-> NoKey, requests |-> <<>>,
     body |-> NoBody]

(***************************************************************************)
(* TrustTierManager (spec.md 4.1).                                          *)
(***************************************************************************)
BasicOfferAllowance == 1     \* BASIC tier: 1 offer / 2 days
ProOfferAllowance == 15      \* PRO tier: 15 offers / day

OfferAllowance(tier) ==
    CASE tier = "BASIC" -> BasicOfferAllowance
      [] tier = "PRO" -> ProOfferAllowance
      [] OTHER -> 0

\* The credential check every gated operation starts with: "OK" or the
\* error code.  payment: the request carries a valid per-call payment proof.
PermissionCode(ag, key, payment) ==
    IF payment THEN "OK"
    ELSE IF key = NoKey THEN "MISSING_KEY"
    ELSE IF key \notin Keys THEN "INVALID_KEY"
    ELSE IF ag[AgentOfKey(key)].status = "UNREGISTERED" THEN "INVALID_KEY"
    ELSE IF ag[AgentOfKey(key)].status = "PENDING" THEN "AGENT_PENDING"
    ELSE "OK"

\* The quota check of create offer, made after the credential check.
QuotaCode(ag, key, payment) ==
    IF payment THEN "OK"
    ELSE IF ag[AgentOfKey(key)].offersUsed
              >= OfferAllowance(ag[AgentOfKey(key)].tier) THEN "RATE_LIMITED"
    ELSE "OK"

\* Stream control and messaging act on a Job of the calling agent.
JobAccessCode(ag, j, key, payment) ==
    IF PermissionCode(ag, key, payment) # "OK" THEN PermissionCode(ag, key, payment)
    ELSE IF j.status = "NONE" THEN "NOT_FOUND"
    ELSE IF ~payment /\ j.agentId # AgentOfKey(key) THEN "NOT_JOB_OWNER"
    ELSE "OK"

\* Whether key is the credential of a registered agent.
CredentialCode(ag, key) ==
    IF key = NoKey THEN "MISSING_KEY"
    ELSE IF key \notin Keys THEN "INVALID_KEY"
    ELSE IF ag[AgentOfKey(key)].status = "UNREGISTERED" THEN "INVALID_KEY"
    ELSE "OK"

\* What the transaction named in verify_payment_activation moved to the
\* deposit address: nothing, less than the required amount, or enough.
Payments == {"NONE", "LOW", "OK"}

\* POST /api/agents/register.  a: the id the backend gives the new agent.
BackendRegister(ag, act, a, nameOk) ==
    IF ~nameOk
    THEN [res |-> ErrorResponse("VALIDATION_ERROR"), agents |-> ag, activation |-> act]
    ELSE [res |-> OkResponse(201, Absent),
          agents |-> [ag EXCEPT ![a] = NewAgent],
          activation |-> [act EXCEPT ![a] = NoActivation]]

\* Activation is for agents that are not ACTIVE yet.
ActivationCode(ag, key) ==
    IF CredentialCode(ag, key) # "OK" THEN CredentialCode(ag, key)
    ELSE IF ag[AgentOfKey(key)].status = "ACTIVE" THEN "ALREADY_ACTIVE"
    ELSE "OK"

\* POST /api/agents/:id/verify-domain.  domainOk: the agent's website shows
\* the verification token.  (The verified badge is not followed.)
BackendVerifyDomain(ag, key, domainOk) ==
    IF CredentialCode(ag, key) # "OK" THEN ErrorResponse(CredentialCode(ag, key))
    ELSE IF ~domainOk THEN ErrorResponse("VERIFICATION_FAILED")
    ELSE OkResponse(200, Absent)

\* POST /api/agents/activate/social: issues a fresh single-use code.
BackendRequestCode(ag, act, key) ==
    IF ActivationCode(ag, key) # "OK"
    THEN [res |-> ErrorResponse(ActivationCode(ag, key)), agents |-> ag,
          activation |-> act]
    ELSE [res |-> OkResponse(200, Absent), agents |-> ag,
          activation |-> [act EXCEPT ![AgentOfKey(key)].code = "ISSUED"]]

\* POST /api/agents/activate/social/verify.  codeInPost: the post at postUrl
\* contains the agent's code.
BackendVerifySocial(ag, act, key, codeInPost) ==
    LET fail(code) == [res |-> ErrorResponse(code), agents |-> ag, activation |-> act]
    IN  IF ActivationCode(ag, key) # "OK" THEN fail(ActivationCode(ag, key))
        ELSE IF act[AgentOfKey(key)].code = "EXPIRED" THEN fail("CODE_EXPIRED")
        ELSE IF act[AgentOfKey(key)].code # "ISSUED" \/ ~codeInPost
        THEN fail("CODE_NOT_FOUND_IN_POST")
        ELSE [res |-> OkResponse(200, Absent),
              agents |-> [ag EXCEPT ![AgentOfKey(key)].status = "ACTIVE",
                                    ![AgentOfKey(key)].tier = "BASIC"],
              activation |-> [act EXCEPT ![AgentOfKey(key)].code = "USED"]]

\* POST /api/agents/activate/payment: issues a deposit target.
BackendGetPaymentActivation(ag, act, key) ==
    IF ActivationCode(ag, key) # "OK"
    THEN [res |-> ErrorResponse(ActivationCode(ag, key)), agents |-> ag,
          activation |-> act]
    ELSE [res |-> OkResponse(200, Absent), agents |-> ag,
          activation |-> [act EXCEPT ![AgentOfKey(key)].deposit = "ISSUED"]]

\* POST /api/agents/activate/payment/verify
BackendVerifyPayment(ag, act, key, paid) ==
    LET fail(code) == [res |-> ErrorResponse(code), agents |-> ag, activation |-> act]
    IN  IF ActivationCode(ag, key) # "OK" THEN fail(ActivationCode(ag, key))
        ELSE IF act[AgentOfKey(key)].deposit = "EXPIRED" THEN fail("PAYMENT_EXPIRED")
        ELSE IF act[AgentOfKey(key)].deposit # "ISSUED" \/ paid = "NONE"
        THEN fail("PAYMENT_NOT_FOUND")
        ELSE IF paid = "LOW" THEN fail("PAYMENT_INSUFFICIENT")
        ELSE [res |-> OkResponse(200, Absent),
              agents |-> [ag EXCEPT ![AgentOfKey(key)].status = "ACTIVE",
                                    ![AgentOfKey(key)].tier = "PRO"],
              activation |-> [act EXCEPT ![AgentOfKey(key)].deposit = "USED"]]

\* The slots of the launch promo (100 at the backend), within the model's
\* number of agents.
PromoCapacity == 1

PromoClaimed(act) == Cardinality({a \in Agents : act[a].promo})

\* POST /api/agents/activate/promo-upgrade: once per agent, while slots remain.
BackendPromoUpgrade(ag, act, key) ==
    LET fail(code) == [res |-> ErrorResponse(code), agents |-> ag, activation |-> act]
    IN  IF CredentialCode(ag, key) # "OK" THEN fail(CredentialCode(ag, key))
        ELSE IF \/ ag[AgentOfKey(key)].status # "ACTIVE"
                \/ ag[AgentOfKey(key)].tier # "BASIC"
                \/ act[AgentOfKey(key)].promo
        THEN fail("TIER_INELIGIBLE")
        ELSE IF PromoClaimed(act) >= PromoCapacity THEN fail("PROMO_EXHAUSTED")
        ELSE [res |-> OkResponse(200, Absent),
              agents |-> [ag EXCEPT ![AgentOfKey(key)].tier = "PRO"],
              activation |-> [act EXCEPT ![AgentOfKey(key)].promo = TRUE]]

\* GET /api/agents/activate/promo-status
BackendPromoStatus(act) ==
    [total |-> PromoCapacity, claimed |-> PromoClaimed(act),
     remaining |-> PromoCapacity - PromoClaimed(act)]

(***************************************************************************)
(* ListingBoard: one Listing and the Applications of the Humans to it.     *)
(***************************************************************************)

\* RATE LIMITS of create_listing: BASIC = 1 listing/week, PRO = 5 listings/day
BasicListingAllowance == 1
ProListingAllowance == 5

ListingAllowance(tier) ==
    CASE tier = "BASIC" -> BasicListingAllowance
      [] tier = "PRO" -> ProListingAllowance
      [] OTHER -> 0

\* The fixed minimum budget of a Listing, within the model's prices.
MinListingBudget == MaxPrice - 1

\* expires_at of create_listing against the clock and the maximum horizon.
Expiries == {"PAST", "OK", "TOO_FAR"}

\* max_applicants of create_listing
ApplicantCaps == 1..Cardinality(Humans)

ApplicationCount(ap) == Cardinality({h \in Humans : ap[h] # "NONE"})

\* POST /api/listings.  a: budgetUsdc, expiresAt, maxApplicants.
BackendCreateListing(ag, l, ap, key, payment, a) ==
    LET perm == PermissionCode(ag, key, payment)
        fail(code) == [res |-> ErrorResponse(code), agents |-> ag,
                       listing |-> l, apps |-> ap]
    IN  IF perm # "OK" THEN fail(perm)
        ELSE IF ~payment /\ ag[AgentOfKey(key)].listingsUsed
                               >= ListingAllowance(ag[AgentOfKey(key)].tier)
        THEN fail("RATE_LIMITED")
        ELSE IF a.budgetUsdc < MinListingBudget THEN fail("BUDGET_TOO_LOW")
        ELSE IF a.expiresAt = "TOO_FAR" THEN fail("EXPIRY_TOO_FAR")
        ELSE IF a.expiresAt = "PAST" THEN fail("EXPIRY_IN_PAST")
        ELSE [res |-> OkResponse(201, "OPEN"),
              agents |-> IF payment THEN ag
                         ELSE [ag EXCEPT ![AgentOfKey(key)].listingsUsed = @ + 1],
              listing |-> [status |-> "OPEN", agentId |-> AgentOfKey(key),
                           budgetUsdc |-> a.budgetUsdc,
                           maxApplicants |-> a.maxApplicants],
              apps |-> [h \in Humans |-> "NONE"]]

\* As AcceptsApplication, without the cap.
AcceptsApplication_NoCap(l, ap, h) ==
    /\ l.status = "OPEN"
    /\ ap[h] = "NONE"

\* A Listing accepts an Application of h while it is OPEN (its expiry has not
\* passed) and below its cap; a Human applies to a Listing once.
AcceptsApplication(l, ap, h) ==
    /\ l.status = "OPEN"
    /\ ApplicationCount(ap) < l.maxApplicants
    /\ ap[h] = "NONE"

\* The Human's application (external to the tools).
BackendApply(l, ap, h) ==
    IF AcceptsApplication(l, ap, h) THEN [ap EXCEPT ![h] = "PENDING"] ELSE ap

\* GET /api/listings/:id/applications
BackendListApplications(ag, l, ap, key) ==
    LET fail(code) == [res |-> ErrorResponse(code), applications |-> {}]
    IN  IF CredentialCode(ag, key) # "OK" THEN fail(CredentialCode(ag, key))
        ELSE IF l.status = "NONE" THEN fail("NOT_FOUND")
        ELSE IF AgentOfKey(key) # l.agentId THEN fail("NOT_LISTING_OWNER")
        ELSE [res |-> OkResponse(200, Absent),
              applications |-> {[human |-> h, status |-> ap[h]] :
                                    h \in {x \in Humans : ap[x] # "NONE"}}]

\* As BackendMakeOffer, for a backend that rejects the PENDING siblings of
\* the converted Application.
BackendMakeOffer_RejectsSiblings(ag, j, l, ap, key, h) ==
    LET fail(code) == [res |-> ErrorResponse(code), job |-> j, listing |-> l,
                       apps |-> ap]
    IN  IF CredentialCode(ag, key) # "OK" THEN fail(CredentialCode(ag, key))
        ELSE IF l.status = "NONE" \/ ap[h] = "NONE" THEN fail("NOT_FOUND")
        ELSE IF AgentOfKey(key) # l.agentId THEN fail("NOT_LISTING_OWNER")
        ELSE IF ap[h] # "PENDING" THEN fail("APPLICATION_NOT_PENDING")
        ELSE [res |-> OkResponse(201, "PENDING"),
              job |-> [NoJob EXCEPT !.status = "PENDING",
                                    !.agentId = l.agentId,
                                    !.humanId = h,
                                    !.priceUsdc = l.budgetUsdc,
                                    !.paymentMode = "ONE_TIME"],
              listing |-> [l EXCEPT !.status = "CLOSED"],
              apps |-> [x \in Humans |->
                           IF x = h THEN "OFFERED"
                           ELSE IF ap[x] = "PENDING" THEN "REJECTED" ELSE ap[x]]]

\* POST /api/listings/:id/applications/:id/offer.  h: the applicant of the
\* application named.  The Job is created at the Listing's budget.
BackendMakeOffer(ag, j, l, ap, key, h) ==
    LET fail(code) == [res |-> ErrorResponse(code), job |-> j, listing |-> l,
                       apps |-> ap]
    IN  IF CredentialCode(ag, key) # "OK" THEN fail(CredentialCode(ag, key))
        ELSE IF l.status = "NONE" \/ ap[h] = "NONE" THEN fail("NOT_FOUND")
        ELSE IF AgentOfKey(key) # l.agentId THEN fail("NOT_LISTING_OWNER")
        ELSE IF ap[h] # "PENDING" THEN fail("APPLICATION_NOT_PENDING")
        ELSE [res |-> OkResponse(201, "PENDING"),
              job |-> [NoJob EXCEPT !.status = "PENDING",
                                    !.agentId = l.agentId,
                                    !.humanId = h,
                                    !.priceUsdc = l.budgetUsdc,
                                    !.paymentMode = "ONE_TIME"],
              listing |-> [l EXCEPT !.status = "CLOSED"],
              apps |-> [ap EXCEPT ![h] = "OFFERED"]]

\* DELETE /api/listings/:id
BackendCancel(ag, l, ap, key) ==
    LET fail(code) == [res |-> ErrorResponse(code), listing |-> l, apps |-> ap]
    IN  IF CredentialCode(ag, key) # "OK" THEN fail(CredentialCode(ag, key))
        ELSE IF l.status = "NONE" THEN fail("NOT_FOUND")
        ELSE IF AgentOfKey(key) # l.agentId THEN fail("NOT_LISTING_OWNER")
        ELSE IF l.status # "OPEN" THEN fail("ALREADY_CLOSED")
        ELSE [res |-> OkResponse(200, "CANCELLED"),
              listing |-> [l EXCEPT !.status = "CANCELLED"],
              apps |-> [h \in Humans |->
                           IF ap[h] = "PENDING" THEN "REJECTED" ELSE ap[h]]]

(***************************************************************************)
(* JobLifecycleController (spec.md 4.2).                                    *)
(***************************************************************************)
\* POST /api/jobs.  a: the request body's offer
\* [priceUsdc, paymentMode, streamMethod, streamRateUsdc, streamMaxTicks].
BackendCreateJob(ag, j, key, payment, a) ==
    LET perm == PermissionCode(ag, key, payment)
        fail(code) == [res |-> ErrorResponse(code), job |-> j, agents |-> ag]
    IN  IF perm # "OK" THEN fail(perm)
        ELSE IF QuotaCode(ag, key, payment) # "OK" THEN fail("RATE_LIMITED")
        ELSE IF a.priceUsdc < HumanMinOfferPrice THEN fail("BELOW_MIN_OFFER_PRICE")
        ELSE [res |-> OkResponse(201, "PENDING"),
              job |-> [NoJob EXCEPT
                          !.status = "PENDING",
                          !.agentId = AgentOfKey(key),
                          !.humanId = "h1",
                          !.priceUsdc = a.priceUsdc,
                          !.paymentMode = a.paymentMode,
                          !.streamMethod = a.streamMethod,
                          !.streamRateUsdc = a.streamRateUsdc,
                          !.streamMaxTicks = a.streamMaxTicks],
              agents |-> IF payment THEN ag
                         ELSE [ag EXCEPT ![AgentOfKey(key)].offersUsed = @ + 1]]

\* As BackendMarkPaid, without the check of the Job's status.
BackendMarkPaid_AnyStatus(j, txHash, network, amount) ==
    IF j.status = "NONE" THEN [res |-> ErrorResponse("NOT_FOUND"), job |-> j]
    ELSE IF amount < j.priceUsdc
    THEN [res |-> ErrorResponse("INSUFFICIENT_PAYMENT"), job |-> j]
    ELSE [res |-> OkResponse(200, "PAID"),
          job |-> [j EXCEPT !.status = "PAID", !.paymentTxHash = txHash,
                            !.paymentNetwork = network, !.paymentAmount = amount]]

\* PATCH /api/jobs/:id/paid
BackendMarkPaid(j, txHash, network, amount) ==
    IF j.status = "NONE" THEN [res |-> ErrorResponse("NOT_FOUND"), job |-> j]
    ELSE IF j.status # "ACCEPTED" \/ j.paymentMode # "ONE_TIME"
    THEN [res |-> ErrorResponse("INVALID_STATE"), job |-> j]
    ELSE IF amount < j.priceUsdc
    THEN [res |-> ErrorResponse("INSUFFICIENT_PAYMENT"), job |-> j]
    ELSE [res |-> OkResponse(200, "PAID"),
          job |-> [j EXCEPT !.status = "PAID", !.paymentTxHash = txHash,
                            !.paymentNetwork = network, !.paymentAmount = amount]]

\* POST /api/jobs/:id/review
BackendReview(j, rating) ==
    IF j.status = "NONE" THEN [res |-> ErrorResponse("NOT_FOUND"), job |-> j]
    ELSE IF rating \notin 1..5
    THEN [res |-> ErrorResponse("VALIDATION_ERROR"), job |-> j]
    ELSE IF j.status # "COMPLETED"
    THEN [res |-> ErrorResponse("NOT_COMPLETED"), job |-> j]
    ELSE IF j.review # 0
    THEN [res |-> ErrorResponse("ALREADY_REVIEWED"), job |-> j]
    ELSE [res |-> OkResponse(201, "COMPLETED"), job |-> [j EXCEPT !.review = rating]]

\* The statuses in which a Job takes messages.
MessageStatuses == {"PENDING", "ACCEPTED", "PAID", "STREAMING", "PAUSED"}

\* content of send_job_message
Contents == {"m1", "m2"}

\* POST /api/jobs/:id/messages.  rateOk: the agent is within its
\* messages-per-minute rate.
BackendSendMessage(ag, j, key, content, rateOk) ==
    LET access == JobAccessCode(ag, j, key, FALSE)
        fail(code) == [res |-> ErrorResponse(code), job |-> j]
    IN  IF access # "OK" THEN fail(access)
        ELSE IF ~rateOk THEN fail("RATE_LIMITED")
        ELSE IF j.status \notin MessageStatuses THEN fail("JOB_CLOSED")
        ELSE [res |-> OkResponse(201, j.status),
              job |-> [j EXCEPT !.messages =
                          Append(@, [senderType |-> "agent", content |-> content])]]

\* GET /api/jobs/:id/messages: the log, oldest first.
BackendGetMessages(ag, j, key) ==
    IF JobAccessCode(ag, j, key, FALSE) # "OK"
    THEN [res |-> ErrorResponse(JobAccessCode(ag, j, key, FALSE)), messages |-> <<>>]
    ELSE [res |-> OkResponse(200, j.status), messages |-> j.messages]

(***************************************************************************)
(* StreamPaymentController (spec.md 4.3).                                   *)
(***************************************************************************)
\* As CapReached, one tick late.
CapReached_OneLate(j, n) == j.streamMaxTicks # 0 /\ n > j.streamMaxTicks

\* The verified tick that brings the count to n reaches the max-tick cap.
CapReached(j, n) == j.streamMaxTicks # 0 /\ n >= j.streamMaxTicks

\* Bookkeeping of one verified interval of `amount`: count it, add it to the
\* cumulative amount, then open the next tick or auto-stop at the cap.
CreditTick(j, st, amount) ==
    [job |-> IF CapReached(j, st.tickCount + 1)
             THEN [j EXCEPT !.status = "COMPLETED"] ELSE j,
     stream |-> [st EXCEPT
                    !.tickCount = @ + 1,
                    !.totalPaid = @ + amount,
                    !.pendingTick =
                        IF CapReached(j, st.tickCount + 1)
                           \/ j.streamMethod # "MICRO_TRANSFER"
                        THEN 0 ELSE st.tickCount + 2]]

\* PATCH /api/jobs/:id/start-stream
BackendStartStream(ag, j, st, fl, key, sender, network) ==
    LET access == JobAccessCode(ag, j, key, FALSE)
        fail(code) == [res |-> ErrorResponse(code), job |-> j, stream |-> st]
    IN  IF access # "OK" THEN fail(access)
        ELSE IF sender = Absent \/ network = Absent THEN fail("VALIDATION_ERROR")
        ELSE IF j.status # "ACCEPTED" \/ j.paymentMode # "STREAM"
        THEN fail("INVALID_STATE")
        ELSE IF j.streamMethod = "SUPERFLUID" /\ fl = "NONE"
        THEN fail("FLOW_NOT_FOUND")
        ELSE IF j.streamMethod = "SUPERFLUID" /\ fl = "MISMATCH"
        THEN fail("FLOW_RATE_MISMATCH")
        ELSE [res |-> OkResponse(200, "STREAMING"),
              job |-> [j EXCEPT !.status = "STREAMING"],
              stream |-> [tickCount |-> 0, totalPaid |-> 0,
                          pendingTick |->
                              IF j.streamMethod = "MICRO_TRANSFER" THEN 1 ELSE 0,
                          network |-> network]]

\* As BackendStreamTick, without the check of the transferred amount.
BackendStreamTick_Unverified(ag, j, st, key, amount) ==
    LET access == JobAccessCode(ag, j, key, FALSE)
        fail(code) == [res |-> ErrorResponse(code), job |-> j, stream |-> st]
    IN  IF access # "OK" THEN fail(access)
        ELSE IF j.status # "STREAMING" \/ j.streamMethod # "MICRO_TRANSFER"
                \/ st.pendingTick = 0
        THEN fail("NO_PENDING_TICK")
        ELSE [res |-> OkResponse(200, CreditTick(j, st, amount).job.status),
              job |-> CreditTick(j, st, amount).job,
              stream |-> CreditTick(j, st, amount).stream]

\* PATCH /api/jobs/:id/stream-tick.  amount: what the transfer named by the
\* submitted transaction hash moved on chain.
BackendStreamTick(ag, j, st, key, amount) ==
    LET access == JobAccessCode(ag, j, key, FALSE)
        fail(code) == [res |-> ErrorResponse(code), job |-> j, stream |-> st]
    IN  IF access # "OK" THEN fail(access)
        ELSE IF j.status # "STREAMING" \/ j.streamMethod # "MICRO_TRANSFER"
                \/ st.pendingTick = 0
        THEN fail("NO_PENDING_TICK")
        ELSE IF amount # j.streamRateUsdc THEN fail("TICK_VERIFICATION_FAILED")
        ELSE [res |-> OkResponse(200, CreditTick(j, st, amount).job.status),
              job |-> CreditTick(j, st, amount).job,
              stream |-> CreditTick(j, st, amount).stream]

\* PATCH /api/jobs/:id/pause-stream
BackendPauseStream(ag, j, st, fl, key) ==
    LET access == JobAccessCode(ag, j, key, FALSE)
        fail(code) == [res |-> ErrorResponse(code), job |-> j, stream |-> st]
    IN  IF access # "OK" THEN fail(access)
        ELSE IF j.status # "STREAMING" THEN fail("INVALID_STATE")
        ELSE IF j.streamMethod = "SUPERFLUID" /\ fl # "NONE"
        THEN fail("FLOW_STILL_ACTIVE")
        ELSE [res |-> OkResponse(200, "PAUSED"),
              job |-> [j EXCEPT !.status = "PAUSED"],
              stream |-> [st EXCEPT !.pendingTick = 0]]

\* PATCH /api/jobs/:id/resume-stream
BackendResumeStream(ag, j, st, fl, key) ==
    LET access == JobAccessCode(ag, j, key, FALSE)
        fail(code) == [res |-> ErrorResponse(code), job |-> j, stream |-> st]
    IN  IF access # "OK" THEN fail(access)
        ELSE IF j.status # "PAUSED" THEN fail("INVALID_STATE")
        ELSE IF j.streamMethod = "SUPERFLUID" /\ fl = "NONE"
        THEN fail("FLOW_NOT_FOUND")
        ELSE IF j.streamMethod = "SUPERFLUID" /\ fl = "MISMATCH"
        THEN fail("FLOW_RATE_MISMATCH")
        ELSE [res |-> OkResponse(200, "STREAMING"),
              job |-> [j EXCEPT !.status = "STREAMING"],
              stream |-> [st EXCEPT !.pendingTick =
                              IF j.streamMethod = "MICRO_TRANSFER"
                              THEN st.tickCount + 1 ELSE 0]]

\* PATCH /api/jobs/:id/stop-stream
BackendStopStream(ag, j, st, key) ==
    LET access == JobAccessCode(ag, j, key, FALSE)
        fail(code) == [res |-> ErrorResponse(code), job |-> j, stream |-> st]
    IN  IF access # "OK" THEN fail(access)
        ELSE IF j.paymentMode = "STREAM" /\ j.status = "COMPLETED"
        THEN fail("ALREADY_STOPPED")
        ELSE IF j.status \notin {"STREAMING", "PAUSED"} THEN fail("INVALID_STATE")
        ELSE [res |-> OkResponse(200, "COMPLETED"),
              job |-> [j EXCEPT !.status = "COMPLETED"],
              stream |-> [st EXCEPT !.pendingTick = 0]]

(***************************************************************************)
(* The tool handlers (CallToolRequestSchema handler of createServer).       *)
(* A handler throws on a failure; the single catch turns the message into   *)
(* { isError: true, text: "Error: <message>" }.                             *)
(*                                                                          *)
(* Each handler is an operator <tool>Call(arguments) giving, in the current *)
(* state, the outcome of one invocation: the tool result, the requests it   *)
(* sent, the last response it received and the backend state it leaves.     *)
(***************************************************************************)
Or(a, b) == IF a # Absent THEN a ELSE b          \* JavaScript a || b on strings
ApiError(res) == "API error: " \o ToString(res.status)

ErrorResult(message) == [isError |-> TRUE, text |-> "Error: " \o message]
SuccessResult(text) == [isError |-> FALSE, text |-> text]

\* fetch(`${API_BASE}${path}`, { method, headers }): no handler sets an
\* x-payment header.
Request(method, path, key) ==
    [method |-> method, path |-> path, agentKey |-> key, payment |-> FALSE]

Outcome(result, requests, res, ag, j, st) ==
    [result |-> result, requests |-> requests, response |-> res,
     agents |-> ag, job |-> j, stream |-> st]

\* if (!agentKey) throw new Error('agent_key is required.')
KeyMissing(key) == key = NoKey
ThrowKeyRequired(message) ==
    Outcome(ErrorResult(message), <<>>, NoResponse, agents, job, stream)

\* No handler has the tool's name: return { content: `Unknown tool: ${name}`,
\* isError: true }.
UnknownToolCall ==
    Outcome([isError |-> TRUE, text |-> "Unknown tool: nonexistent_tool"], <<>>,
            NoResponse, agents, job, stream)

\* The outcome of a handler that acts on the agent and its activation.
AgentOutcome(result, requests, res, ag, act) ==
    [result |-> result, requests |-> requests, response |-> res,
     agents |-> ag, activation |-> act]

ThrowAgentKeyRequired ==
    AgentOutcome(ErrorResult("agent_key is required."), <<>>, NoResponse,
                 agents, activation)

\* As RegisterAgentResult, without the check of res.ok.
RegisterAgentResult_IgnoresStatus(res, a) ==
    SuccessResult("**Agent Registered!** API Key: " \o KeyOf(a)
                  \o " Status: PENDING")

RegisterAgentResult(res, a) ==
    IF ~res.ok THEN ErrorResult(Or(res.error, ApiError(res)))
    ELSE SuccessResult("**Agent Registered!** API Key: " \o KeyOf(a)
                       \o " Status: PENDING")

\* register_agent takes no agent_key; nameOk: args.name passes validation.
RegisterAgentCall(a, nameOk) ==
    LET req == Request("POST", "/api/agents/register", NoKey)
        out == BackendRegister(agents, activation, a, nameOk)
    IN  AgentOutcome(RegisterAgentResult(out.res, a), <<req>>, out.res,
                     out.agents, out.activation)

\* verify_agent_domain sends args.agent_key as it is; the handler has no
\* check of it.
VerifyAgentDomainCall(key, domainOk) ==
    LET req == Request("POST", "/api/agents/:id/verify-domain", key)
        res == BackendVerifyDomain(agents, req.agentKey, domainOk)
    IN  [result |-> IF ~res.ok
                    THEN ErrorResult(Or(res.message, Or(res.error, ApiError(res))))
                    ELSE SuccessResult("**Domain Verified!**"),
         requests |-> <<req>>, response |-> res]

RequestActivationCodeResult(res) ==
    IF ~res.ok THEN ErrorResult(Or(res.error, ApiError(res)))
    ELSE SuccessResult("**Activation Code Generated!**")

RequestActivationCodeCall(key) ==
    LET req == Request("POST", "/api/agents/activate/social", key)
        out == BackendRequestCode(agents, activation, req.agentKey)
    IN  IF KeyMissing(key) THEN ThrowAgentKeyRequired
        ELSE AgentOutcome(RequestActivationCodeResult(out.res), <<req>>, out.res,
                          out.agents, out.activation)

\* As VerifySocialActivationResult, without the check of res.ok.
VerifySocialActivationResult_IgnoresStatus(res) ==
    SuccessResult("**Agent Activated!**")

VerifySocialActivationResult(res) ==
    IF ~res.ok THEN ErrorResult(Or(res.error, ApiError(res)))
    ELSE SuccessResult("**Agent Activated!**")

VerifySocialActivationCall(key, codeInPost) ==
    LET req == Request("POST", "/api/agents/activate/social/verify", key)
        out == BackendVerifySocial(agents, activation, req.agentKey, codeInPost)
    IN  IF KeyMissing(key) THEN ThrowAgentKeyRequired
        ELSE AgentOutcome(VerifySocialActivationResult(out.res), <<req>>, out.res,
                          out.agents, out.activation)

GetPaymentActivationResult(res) ==
    IF ~res.ok THEN ErrorResult(Or(res.error, ApiError(res)))
    ELSE SuccessResult("**PRO Tier Payment Instructions**")

GetPaymentActivationCall(key) ==
    LET req == Request("POST", "/api/agents/activate/payment", key)
        out == BackendGetPaymentActivation(agents, activation, req.agentKey)
    IN  IF KeyMissing(key) THEN ThrowAgentKeyRequired
        ELSE AgentOutcome(GetPaymentActivationResult(out.res), <<req>>, out.res,
                          out.agents, out.activation)

VerifyPaymentActivationResult(res) ==
    IF ~res.ok THEN ErrorResult(Or(res.error, ApiError(res)))
    ELSE SuccessResult("**Agent Activated - PRO Tier!**")

VerifyPaymentActivationCall(key, paid) ==
    LET req == Request("POST", "/api/agents/activate/payment/verify", key)
        out == BackendVerifyPayment(agents, activation, req.agentKey, paid)
    IN  IF KeyMissing(key) THEN ThrowAgentKeyRequired
        ELSE AgentOutcome(VerifyPaymentActivationResult(out.res), <<req>>, out.res,
                          out.agents, out.activation)

\* get_promo_status: read-only, no credential.
GetPromoStatusCall ==
    [result |-> SuccessResult("**Launch Promo Status** Remaining: "
                              \o ToString(BackendPromoStatus(activation).remaining)),
     status |-> BackendPromoStatus(activation)]

\* As ClaimFreeProUpgradeResult, without the check of res.ok.
ClaimFreeProUpgradeResult_IgnoresStatus(res) ==
    SuccessResult("**PRO Tier Unlocked - Free!**")

ClaimFreeProUpgradeResult(res) ==
    IF ~res.ok THEN ErrorResult(Or(res.message, Or(res.error, ApiError(res))))
    ELSE SuccessResult("**PRO Tier Unlocked - Free!**")

ClaimFreeProUpgradeCall(key) ==
    LET req == Request("POST", "/api/agents/activate/promo-upgrade", key)
        out == BackendPromoUpgrade(agents, activation, req.agentKey)
    IN  IF KeyMissing(key)
        THEN AgentOutcome(
                 ErrorResult("agent_key is required. Register and activate (BASIC tier) first."),
                 <<>>, NoResponse, agents, activation)
        ELSE AgentOutcome(ClaimFreeProUpgradeResult(out.res), <<req>>, out.res,
                          out.agents, out.activation)

\* The argument maps create_job_offer is called with.
Offers ==
    [priceUsdc : Prices, paymentMode : {"ONE_TIME"}, streamMethod : {Absent},
     streamRateUsdc : {0}, streamMaxTicks : {0}]
    \cup
    [priceUsdc : {MaxPrice}, paymentMode : {"STREAM"},
     streamMethod : {"SUPERFLUID", "MICRO_TRANSFER"},
     streamRateUsdc : Rates, streamMaxTicks : MaxTicksOptions]

CreateJobOfferError(res) ==
    IF res.status = 403 /\ res.code = "AGENT_PENDING"
    THEN "Agent is not yet activated. You must activate before creating jobs."
    ELSE Or(res.error, ApiError(res))

\* The success text: the same for every payment mode.
CreateJobOfferText(jobStatus) ==
    "**Job Offer Created!** Status: " \o jobStatus
    \o " Next Step: Wait for the human to accept the offer."
    \o " Once accepted, you can send payment to their wallet and use"
    \o " mark_job_paid to record the transaction."

\* As CreateJobOfferCall, without the check of res.ok before getHuman.
CreateJobOfferCall_IgnoresStatus(key, offer, humanOk) ==
    LET req == Request("POST", "/api/jobs", key)
        out == BackendCreateJob(agents, job, req.agentKey, req.payment, offer)
        get == Request("GET", "/api/humans/:id", NoKey)
    IN  IF KeyMissing(key)
        THEN ThrowKeyRequired(
            "agent_key is required. Register first with register_agent to get an API key.")
        ELSE IF ~humanOk
        THEN Outcome(ErrorResult("Human not found: h1"), <<req, get>>,
                     ErrorResponse("NOT_FOUND"), out.agents, out.job, stream)
        ELSE Outcome(SuccessResult(CreateJobOfferText(out.res.jobStatus)),
                     <<req, get>>, OkResponse(200, Absent), out.agents, out.job, stream)

\* After a created Job the handler reads the Human's profile (getHuman),
\* which throws when that response is not OK.
CreateJobOfferCall(key, offer, humanOk) ==
    LET req == Request("POST", "/api/jobs", key)
        out == BackendCreateJob(agents, job, req.agentKey, req.payment, offer)
        get == Request("GET", "/api/humans/:id", NoKey)
    IN  IF KeyMissing(key)
        THEN ThrowKeyRequired(
            "agent_key is required. Register first with register_agent to get an API key.")
        ELSE IF ~out.res.ok
        THEN Outcome(ErrorResult(CreateJobOfferError(out.res)), <<req>>, out.res,
                     out.agents, out.job, stream)
        ELSE IF ~humanOk
        THEN Outcome(ErrorResult("Human not found: h1"), <<req, get>>,
                     ErrorResponse("NOT_FOUND"), out.agents, out.job, NoStream)
        ELSE Outcome(SuccessResult(CreateJobOfferText(out.res.jobStatus)),
                     <<req, get>>, OkResponse(200, Absent), out.agents, out.job, NoStream)

\* As MarkJobPaidResult, throwing on a server error (5xx) only.
MarkJobPaidResult_ServerErrorsOnly(res) ==
    IF res.status >= 500
    THEN ErrorResult(Or(res.reason, Or(res.error, ApiError(res))))
    ELSE SuccessResult("**Payment Recorded!** Status: " \o res.jobStatus)

\* As MarkJobPaidResult, without the check of res.ok.
MarkJobPaidResult_IgnoresStatus(res) ==
    SuccessResult("**Payment Recorded!** Status: " \o res.jobStatus)

MarkJobPaidResult(res) ==
    IF ~res.ok THEN ErrorResult(Or(res.reason, Or(res.error, ApiError(res))))
    ELSE SuccessResult("**Payment Recorded!** Status: " \o res.jobStatus)

\* headers: { 'Content-Type': 'application/json' } only.
MarkJobPaidCall(txHash, network, amount) ==
    LET req == Request("PATCH", "/api/jobs/:id/paid", NoKey)
        out == BackendMarkPaid(job, txHash, network, amount)
    IN  Outcome(MarkJobPaidResult(out.res), <<req>>, out.res, agents, out.job, stream)

\* As LeaveReviewResult, without the check of res.ok.
LeaveReviewResult_IgnoresStatus(res) == SuccessResult("**Review Submitted!**")

LeaveReviewResult(res) ==
    IF ~res.ok THEN ErrorResult(Or(res.reason, Or(res.error, ApiError(res))))
    ELSE SuccessResult("**Review Submitted!**")

\* headers: { 'Content-Type': 'application/json' } only.
LeaveReviewCall(rating) ==
    LET req == Request("POST", "/api/jobs/:id/review", NoKey)
        out == BackendReview(job, rating)
    IN  Outcome(LeaveReviewResult(out.res), <<req>>, out.res, agents, out.job, stream)

\* As SendJobMessageResult, without the check of res.ok.
SendJobMessageResult_IgnoresStatus(res) == SuccessResult("**Message Sent!**")

SendJobMessageResult(res) ==
    IF ~res.ok THEN ErrorResult(Or(res.error, ApiError(res)))
    ELSE SuccessResult("**Message Sent!**")

SendJobMessageCall(key, content, rateOk) ==
    LET req == Request("POST", "/api/jobs/:id/messages", key)
        out == BackendSendMessage(agents, job, req.agentKey, content, rateOk)
    IN  IF KeyMissing(key) THEN ThrowKeyRequired("agent_key is required.")
        ELSE Outcome(SendJobMessageResult(out.res), <<req>>, out.res, agents,
                     out.job, stream)

GetJobMessagesResult(res, messages) ==
    IF ~res.ok THEN ErrorResult(Or(res.error, ApiError(res)))
    ELSE IF Len(messages) = 0 THEN SuccessResult("No messages yet on this job.")
    ELSE SuccessResult("**Job Messages** (" \o ToString(Len(messages)) \o " total)")

\* Read-only: the result and the messages it shows, in the order received.
GetJobMessagesCall(key) ==
    LET req == Request("GET", "/api/jobs/:id/messages", key)
        out == BackendGetMessages(agents, job, req.agentKey)
    IN  IF KeyMissing(key)
        THEN [result |-> ErrorResult("agent_key is required."), requests |-> <<>>,
              messages |-> <<>>]
        ELSE [result |-> GetJobMessagesResult(out.res, out.messages),
              requests |-> <<req>>, messages |-> out.messages]

\* As StartStreamResult, without the check of res.ok.
StartStreamResult_IgnoresStatus(res) ==
    SuccessResult("**Stream Started!** Status: " \o res.jobStatus)

StartStreamResult(res) ==
    IF ~res.ok THEN ErrorResult(Or(res.hint, Or(res.error, ApiError(res))))
    ELSE SuccessResult("**Stream Started!** Status: " \o res.jobStatus)

StartStreamCall(key, sender, network) ==
    LET req == Request("PATCH", "/api/jobs/:id/start-stream", key)
        out == BackendStartStream(agents, job, stream, flow, req.agentKey, sender, network)
    IN  IF KeyMissing(key) THEN ThrowKeyRequired("agent_key is required.")
        ELSE Outcome(StartStreamResult(out.res), <<req>>, out.res, agents,
                     out.job, out.stream)

\* As RecordStreamTickResult, throwing on a server error (5xx) only.
RecordStreamTickResult_ServerErrorsOnly(res) ==
    IF res.status >= 500 THEN ErrorResult(Or(res.error, ApiError(res)))
    ELSE SuccessResult("**Tick Verified!** Status: " \o res.jobStatus)

\* As RecordStreamTickResult, without the check of res.ok.
RecordStreamTickResult_IgnoresStatus(res) ==
    SuccessResult("**Tick Verified!** Status: " \o res.jobStatus)

RecordStreamTickResult(res) ==
    IF ~res.ok THEN ErrorResult(Or(res.error, ApiError(res)))
    ELSE SuccessResult("**Tick Verified!** Status: " \o res.jobStatus)

RecordStreamTickCall(key, amount) ==
    LET req == Request("PATCH", "/api/jobs/:id/stream-tick", key)
        out == BackendStreamTick(agents, job, stream, req.agentKey, amount)
    IN  IF KeyMissing(key) THEN ThrowKeyRequired("agent_key is required.")
        ELSE Outcome(RecordStreamTickResult(out.res), <<req>>, out.res, agents,
                     out.job, out.stream)

PauseStreamResult(res) ==
    IF ~res.ok THEN ErrorResult(Or(res.hint, Or(res.error, ApiError(res))))
    ELSE SuccessResult("**Stream Paused** Status: " \o res.jobStatus)

PauseStreamCall(key) ==
    LET req == Request("PATCH", "/api/jobs/:id/pause-stream", key)
        out == BackendPauseStream(agents, job, stream, flow, req.agentKey)
    IN  IF KeyMissing(key) THEN ThrowKeyRequired("agent_key is required.")
        ELSE Outcome(PauseStreamResult(out.res), <<req>>, out.res, agents,
                     out.job, out.stream)

\* As ResumeStreamResult, without the check of res.ok.
ResumeStreamResult_IgnoresStatus(res) ==
    SuccessResult("**Stream Resumed!** Status: " \o res.jobStatus)

ResumeStreamResult(res) ==
    IF ~res.ok THEN ErrorResult(Or(res.hint, Or(res.error, ApiError(res))))
    ELSE SuccessResult("**Stream Resumed!** Status: " \o res.jobStatus)

ResumeStreamCall(key) ==
    LET req == Request("PATCH", "/api/jobs/:id/resume-stream", key)
        out == BackendResumeStream(agents, job, stream, flow, req.agentKey)
    IN  IF KeyMissing(key) THEN ThrowKeyRequired("agent_key is required.")
        ELSE Outcome(ResumeStreamResult(out.res), <<req>>, out.res, agents,
                     out.job, out.stream)

\* As StopStreamResult, without the check of res.ok.
StopStreamResult_IgnoresStatus(res) ==
    SuccessResult("**Stream Stopped** Status: " \o res.jobStatus)

StopStreamResult(res) ==
    IF ~res.ok THEN ErrorResult(Or(res.error, ApiError(res)))
    ELSE SuccessResult("**Stream Stopped** Status: " \o res.jobStatus)

StopStreamCall(key) ==
    LET req == Request("PATCH", "/api/jobs/:id/stop-stream", key)
        out == BackendStopStream(agents, job, stream, req.agentKey)
    IN  IF KeyMissing(key) THEN ThrowKeyRequired("agent_key is required.")
        ELSE Outcome(StopStreamResult(out.res), <<req>>, out.res, agents,
                     out.job, out.stream)

\* The outcome of a handler that acts on the Listing and its Applications.
ListingOutcome(result, requests, res, ag, j, l, ap) ==
    [result |-> result, requests |-> requests, response |-> res,
     agents |-> ag, job |-> j, listing |-> l, apps |-> ap]

ThrowListingKeyRequired ==
    ListingOutcome(ErrorResult("agent_key is required."), <<>>, NoResponse,
                   agents, job, listing, apps)

\* The argument maps create_listing is called with.
ListingArgs ==
    [budgetUsdc : Prices, expiresAt : Expiries, maxApplicants : ApplicantCaps]

CreateListingResult(res) ==
    IF ~res.ok
    THEN IF res.status = 403 /\ res.code = "AGENT_PENDING"
         THEN ErrorResult(
             "Agent is not yet activated. You must activate before creating listings.")
         ELSE ErrorResult(Or(res.message, Or(res.error, ApiError(res))))
    ELSE SuccessResult("**Listing Created!** Status: " \o res.jobStatus)

CreateListingCall(key, a) ==
    LET req == Request("POST", "/api/listings", key)
        out == BackendCreateListing(agents, listing, apps, req.agentKey,
                                    req.payment, a)
    IN  IF KeyMissing(key) THEN ThrowListingKeyRequired
        ELSE ListingOutcome(CreateListingResult(out.res), <<req>>, out.res,
                            out.agents, job, out.listing, out.apps)

GetListingApplicationsResult(res, applications) ==
    IF ~res.ok THEN ErrorResult(Or(res.error, ApiError(res)))
    ELSE IF applications = {}
    THEN SuccessResult("No applications yet for this listing.")
    ELSE SuccessResult("**Applications** ("
                       \o ToString(Cardinality(applications)) \o " total)")

\* Read-only: the result and the applications it lists.
GetListingApplicationsCall(key) ==
    LET req == Request("GET", "/api/listings/:id/applications", key)
        out == BackendListApplications(agents, listing, apps, req.agentKey)
    IN  IF KeyMissing(key)
        THEN [result |-> ErrorResult("agent_key is required."), applications |-> {}]
        ELSE [result |-> GetListingApplicationsResult(out.res, out.applications),
              applications |-> out.applications]

\* As MakeListingOfferResult, without the check of res.ok.
MakeListingOfferResult_IgnoresStatus(res) ==
    SuccessResult("**Offer Made!** Status: " \o res.jobStatus)

MakeListingOfferResult(res) ==
    IF ~res.ok THEN ErrorResult(Or(res.message, Or(res.error, ApiError(res))))
    ELSE SuccessResult("**Offer Made!** Status: " \o res.jobStatus)

\* h: the applicant of args.application_id.
MakeListingOfferCall(key, h) ==
    LET req == Request("POST", "/api/listings/:id/applications/:id/offer", key)
        out == BackendMakeOffer(agents, job, listing, apps, req.agentKey, h)
    IN  IF KeyMissing(key) THEN ThrowListingKeyRequired
        ELSE ListingOutcome(MakeListingOfferResult(out.res), <<req>>, out.res,
                            agents, out.job, out.listing, out.apps)

\* As CancelListingResult, without the check of res.ok.
CancelListingResult_IgnoresStatus(res) ==
    SuccessResult("**Listing Cancelled** Status: " \o res.jobStatus)

CancelListingResult(res) ==
    IF ~res.ok THEN ErrorResult(Or(res.message, Or(res.error, ApiError(res))))
    ELSE SuccessResult("**Listing Cancelled** Status: " \o res.jobStatus)

CancelListingCall(key) ==
    LET req == Request("DELETE", "/api/listings/:id", key)
        out == BackendCancel(agents, listing, apps, req.agentKey)
    IN  IF KeyMissing(key) THEN ThrowListingKeyRequired
        ELSE ListingOutcome(CancelListingResult(out.res), <<req>>, out.res,
                            agents, job, out.listing, out.apps)

(***************************************************************************)
(* Tool invocations.  caller: the agent on whose behalf the tool is called; *)
(* key: the agent_key argument it passes (its own key, or none).            *)
(***************************************************************************)
Apply(outcome) ==
    /\ agents' = outcome.agents
    /\ job' = outcome.job
    /\ stream' = outcome.stream
    /\ UNCHANGED <<flow, activation, listing, apps, call, human>>

CallerKeys(caller) == {NoKey, KeyOf(caller)}

\* The effect of a handler that acts on the agent and its activation.
ApplyAgent(outcome) ==
    /\ agents' = outcome.agents
    /\ activation' = outcome.activation
    /\ UNCHANGED <<job, stream, flow, listing, apps, call, human>>

\* The backend gives the new agent the id a.
RegisterAgent(a, nameOk) ==
    /\ agents[a].status = "UNREGISTERED"
    /\ ApplyAgent(RegisterAgentCall(a, nameOk))

RequestActivationCode(caller, key) ==
    /\ key \in CallerKeys(caller)
    /\ ApplyAgent(RequestActivationCodeCall(key))

VerifySocialActivation(caller, key, codeInPost) ==
    /\ key \in CallerKeys(caller)
    /\ ApplyAgent(VerifySocialActivationCall(key, codeInPost))

GetPaymentActivation(caller, key) ==
    /\ key \in CallerKeys(caller)
    /\ ApplyAgent(GetPaymentActivationCall(key))

VerifyPaymentActivation(caller, key, paid) ==
    /\ key \in CallerKeys(caller)
    /\ ApplyAgent(VerifyPaymentActivationCall(key, paid))

ClaimFreeProUpgrade(caller, key) ==
    /\ key \in CallerKeys(caller)
    /\ ApplyAgent(ClaimFreeProUpgradeCall(key))

\* The model holds one Job: an offer that would create a second is not made.
CreateJobOffer(caller, key, offer, humanOk) ==
    /\ key \in CallerKeys(caller)
    /\ \/ job.status = "NONE"
       \/ /\ CreateJobOfferCall(key, offer, humanOk).job = job
          /\ CreateJobOfferCall(key, offer, humanOk).agents = agents
    /\ Apply(CreateJobOfferCall(key, offer, humanOk))

\* mark_job_paid and leave_review take no agent_key: any agent can call them.
MarkJobPaid(caller, txHash, network, amount) ==
    /\ caller \in Agents
    /\ Apply(MarkJobPaidCall(txHash, network, amount))

LeaveReview(caller, rating) ==
    /\ caller \in Agents
    /\ Apply(LeaveReviewCall(rating))

StartStream(caller, key, sender, network) ==
    /\ key \in CallerKeys(caller)
    /\ Apply(StartStreamCall(key, sender, network))

\* TickBound caps the ticks of a stream.
RecordStreamTick(caller, key, amount) ==
    /\ key \in CallerKeys(caller)
    /\ stream.tickCount < TickBound
    /\ Apply(RecordStreamTickCall(key, amount))

PauseStream(caller, key) ==
    /\ key \in CallerKeys(caller)
    /\ Apply(PauseStreamCall(key))

ResumeStream(caller, key) ==
    /\ key \in CallerKeys(caller)
    /\ Apply(ResumeStreamCall(key))

StopStream(caller, key) ==
    /\ key \in CallerKeys(caller)
    /\ Apply(StopStreamCall(key))

(***************************************************************************)
(* Events outside the tool surface: the Human's side of the Job, the        *)
(* backend's own bookkeeping and the agent's on-chain actions.              *)
(***************************************************************************)
SendJobMessage(caller, key, content, rateOk) ==
    /\ key \in CallerKeys(caller)
    /\ Len(job.messages) < MsgBound
    /\ Apply(SendJobMessageCall(key, content, rateOk))

GetJobMessages(caller, key) ==
    /\ key \in CallerKeys(caller)
    /\ Len(GetJobMessagesCall(key).messages) <= MsgBound
    /\ UNCHANGED vars

\* The Human writes on the Job.
HumanSendsMessage ==
    /\ job.status \in MessageStatuses
    /\ Len(job.messages) < MsgBound
    /\ job' = [job EXCEPT !.messages =
                   Append(@, [senderType |-> "human", content |-> "reply"])]
    /\ UNCHANGED <<agents, stream, flow, activation, listing, apps, call, human>>

HumanAccept ==
    /\ job.status = "PENDING"
    /\ job' = [job EXCEPT !.status = "ACCEPTED"]
    /\ UNCHANGED <<agents, stream, flow, activation, listing, apps, call, human>>

HumanReject ==
    /\ job.status = "PENDING"
    /\ job' = [job EXCEPT !.status = "REJECTED"]
    /\ UNCHANGED <<agents, stream, flow, activation, listing, apps, call, human>>

HumanComplete ==
    /\ job.status = "PAID"
    /\ job' = [job EXCEPT !.status = "COMPLETED"]
    /\ UNCHANGED <<agents, stream, flow, activation, listing, apps, call, human>>

CancelJob ==
    /\ job.status \notin TerminalStatuses \cup {"NONE"}
    /\ job' = [job EXCEPT !.status = "CANCELLED"]
    /\ stream' = [stream EXCEPT !.pendingTick = 0]
    /\ UNCHANGED <<agents, flow, activation, listing, apps, call, human>>

DisputeJob ==
    /\ job.status \in {"PAID", "STREAMING"}
    /\ job' = [job EXCEPT !.status = "DISPUTED"]
    /\ stream' = [stream EXCEPT !.pendingTick = 0]
    /\ UNCHANGED <<agents, flow, activation, listing, apps, call, human>>

\* A SUPERFLUID stream's intervals are credited from the elapsed flow time.
SuperfluidCheckpoint ==
    /\ job.status = "STREAMING"
    /\ job.streamMethod = "SUPERFLUID"
    /\ flow = "OK"
    /\ stream.tickCount < TickBound
    /\ job' = CreditTick(job, stream, job.streamRateUsdc).job
    /\ stream' = CreditTick(job, stream, job.streamRateUsdc).stream
    /\ UNCHANGED <<agents, flow, activation, listing, apps, call, human>>

\* The effect of a handler that acts on the Listing and its Applications.
ApplyListing(outcome) ==
    /\ agents' = outcome.agents
    /\ job' = outcome.job
    /\ listing' = outcome.listing
    /\ apps' = outcome.apps
    /\ UNCHANGED <<stream, flow, activation, call, human>>

\* The model follows one Listing: a create_listing that creates another is
\* not followed.
CreateListing(caller, key, a) ==
    /\ key \in CallerKeys(caller)
    /\ \/ listing.status = "NONE"
       \/ CreateListingCall(key, a).agents = agents
    /\ ApplyListing(CreateListingCall(key, a))

GetListingApplications(caller, key) ==
    /\ key \in CallerKeys(caller)
    /\ GetListingApplicationsCall(key).applications \subseteq
            [human : Humans, status : {"PENDING", "OFFERED", "REJECTED"}]
    /\ UNCHANGED vars

\* The model follows one Job: a make_listing_offer that creates another is
\* not followed.
MakeListingOffer(caller, key, h) ==
    /\ key \in CallerKeys(caller)
    /\ \/ job.status = "NONE"
       \/ MakeListingOfferCall(key, h).job = job
    /\ ApplyListing(MakeListingOfferCall(key, h))

CancelListing(caller, key) ==
    /\ key \in CallerKeys(caller)
    /\ ApplyListing(CancelListingCall(key))

\* A Human sends an Application to the Listing.
HumanApplies(h) ==
    /\ listing.status # "NONE"
    /\ apps' = BackendApply(listing, apps, h)
    /\ UNCHANGED <<agents, job, stream, flow, activation, listing, call, human>>

\* The Listing's expiry passes.
ListingExpires ==
    /\ listing.status = "OPEN"
    /\ listing' = [listing EXCEPT !.status = "EXPIRED"]
    /\ UNCHANGED <<agents, job, stream, flow, activation, apps, call, human>>

\* The time limit of an issued activation code / deposit target passes.
CodeExpires(a) ==
    /\ activation[a].code = "ISSUED"
    /\ activation' = [activation EXCEPT ![a].code = "EXPIRED"]
    /\ UNCHANGED <<agents, job, stream, flow, listing, apps, call, human>>

DepositExpires(a) ==
    /\ activation[a].deposit = "ISSUED"
    /\ activation' = [activation EXCEPT ![a].deposit = "EXPIRED"]
    /\ UNCHANGED <<agents, job, stream, flow, listing, apps, call, human>>

\* The rolling quota window of an agent's tier elapses.
QuotaWindowElapses(a) ==
    /\ agents[a].offersUsed > 0
    /\ agents' = [agents EXCEPT ![a].offersUsed = 0]
    /\ UNCHANGED <<job, stream, flow, activation, listing, apps, call, human>>

\* The hiring agent creates (at the agreed rate or not) or deletes the
\* on-chain flow to the Human's wallet, which ACCEPTED unlocks.
CreateFlow(rateOk) ==
    /\ job.streamMethod = "SUPERFLUID"
    /\ job.status \in {"ACCEPTED", "STREAMING", "PAUSED"}
    /\ flow = "NONE"
    /\ flow' = IF rateOk THEN "OK" ELSE "MISMATCH"
    /\ UNCHANGED <<agents, job, stream, activation, listing, apps, call, human>>

DeleteFlow ==
    /\ flow # "NONE"
    /\ flow' = "NONE"
    /\ UNCHANGED <<agents, job, stream, activation, listing, apps, call, human>>

(***************************************************************************)
(* Specification.                                                           *)
(***************************************************************************)
\* Both agents have registered; nothing else has happened.
Init ==
    /\ agents = [a \in Agents |-> NewAgent]
    /\ job = NoJob
    /\ stream = NoStream
    /\ flow = "NONE"
    /\ activation = [a \in Agents |-> NoActivation]
    /\ listing = NoListing
    /\ apps = [h \in Humans |-> "NONE"]
    /\ call = [s \in Slots |-> NoCall]
    /\ human = NewHuman

Next ==
    \/ \E c \in Agents, k \in AllKeys : RequestActivationCode(c, k)
    \/ \E c \in Agents, k \in AllKeys, b \in BOOLEAN :
           VerifySocialActivation(c, k, b)
    \/ \E c \in Agents, k \in AllKeys, o \in Offers, b \in BOOLEAN :
           CreateJobOffer(c, k, o, b)
    \/ \E c \in Agents, t \in TxHashes, n \in Networks, amt \in Prices :
           MarkJobPaid(c, t, n, amt)
    \/ \E c \in Agents, r \in Ratings : LeaveReview(c, r)
    \/ \E c \in Agents, k \in AllKeys, s \in Senders, n \in Networks :
           StartStream(c, k, s, n)
    \/ \E c \in Agents, k \in AllKeys, amt \in Rates :
           RecordStreamTick(c, k, amt)
    \/ \E c \in Agents, k \in AllKeys : PauseStream(c, k)
    \/ \E c \in Agents, k \in AllKeys : ResumeStream(c, k)
    \/ \E c \in Agents, k \in AllKeys : StopStream(c, k)
    \/ HumanAccept
    \/ HumanReject
    \/ HumanComplete
    \/ CancelJob
    \/ DisputeJob
    \/ SuperfluidCheckpoint
    \/ \E a \in Agents : QuotaWindowElapses(a)
    \/ \E b \in BOOLEAN : CreateFlow(b)
    \/ DeleteFlow

Spec == Init /\ [][Next]_vars

(***************************************************************************)
(* Registration, activation and the offer quota: agents register, activate *)
(* by a social post or a payment, and make one offer after another.        *)
(***************************************************************************)

\* The offers of the quota scenario: one-time payments at every price.
OneTimeOffers == {o \in Offers : o.paymentMode = "ONE_TIME"}

\* The model follows one Job at a time; it lets go of the Job it follows so
\* that the next create_job_offer can be followed.
ForgetJob ==
    /\ job.status # "NONE"
    /\ job' = NoJob
    /\ stream' = NoStream
    /\ UNCHANGED <<agents, flow, activation, listing, apps, call, human>>

\* Nobody has registered.
AgentInit ==
    /\ agents = [a \in Agents |-> NoAgent]
    /\ job = NoJob
    /\ stream = NoStream
    /\ flow = "NONE"
    /\ activation = [a \in Agents |-> NoActivation]
    /\ listing = NoListing
    /\ apps = [h \in Humans |-> "NONE"]
    /\ call = [s \in Slots |-> NoCall]
    /\ human = NewHuman

AgentNext ==
    \/ \E a \in Agents, b \in BOOLEAN : RegisterAgent(a, b)
    \/ \E c \in Agents, k \in AllKeys : RequestActivationCode(c, k)
    \/ \E c \in Agents, k \in AllKeys, b \in BOOLEAN :
           VerifySocialActivation(c, k, b)
    \/ \E c \in Agents, k \in AllKeys : GetPaymentActivation(c, k)
    \/ \E c \in Agents, k \in AllKeys, p \in Payments :
           VerifyPaymentActivation(c, k, p)
    \/ \E c \in Agents, k \in AllKeys : ClaimFreeProUpgrade(c, k)
    \/ \E a \in Agents : CodeExpires(a)
    \/ \E a \in Agents : DepositExpires(a)
    \/ \E c \in Agents, k \in AllKeys, o \in OneTimeOffers, b \in BOOLEAN :
           CreateJobOffer(c, k, o, b)
    \/ ForgetJob
    \/ \E a \in Agents : QuotaWindowElapses(a)

AgentSpec == AgentInit /\ [][AgentNext]_vars

(***************************************************************************)
(* Messages on a Job: agents activate, one makes an offer, and the agent   *)
(* and the Human write on the Job while it runs its course.                *)
(***************************************************************************)

\* The offers of the message scenario: a one-time payment and a
\* MICRO_TRANSFER stream without a cap.
MessageOffers ==
    {o \in Offers : /\ o.priceUsdc = MaxPrice
                    /\ o.streamMethod \in {Absent, "MICRO_TRANSFER"}
                    /\ o.streamRateUsdc <= 1
                    /\ o.streamMaxTicks = 0}

MessageNext ==
    \/ \E c \in Agents, k \in AllKeys : RequestActivationCode(c, k)
    \/ \E c \in Agents, k \in AllKeys, b \in BOOLEAN :
           VerifySocialActivation(c, k, b)
    \/ \E c \in Agents, k \in AllKeys, o \in MessageOffers :
           CreateJobOffer(c, k, o, TRUE)
    \/ \E c \in Agents, k \in AllKeys, m \in Contents, b \in BOOLEAN :
           SendJobMessage(c, k, m, b)
    \/ \E c \in Agents, k \in AllKeys : GetJobMessages(c, k)
    \/ HumanSendsMessage
    \/ \E c \in Agents, t \in TxHashes, n \in Networks :
           MarkJobPaid(c, t, n, MaxPrice)
    \/ \E c \in Agents, k \in AllKeys, n \in Networks :
           StartStream(c, k, "0xsender", n)
    \/ \E c \in Agents, k \in AllKeys : PauseStream(c, k)
    \/ \E c \in Agents, k \in AllKeys : ResumeStream(c, k)
    \/ \E c \in Agents, k \in AllKeys : StopStream(c, k)
    \/ HumanAccept
    \/ HumanReject
    \/ HumanComplete
    \/ CancelJob

MessageSpec == Init /\ [][MessageNext]_vars

(***************************************************************************)
(* The job board: registered agents activate, one posts a Listing, Humans  *)
(* apply, and the Listing is converted, cancelled or expires.              *)
(***************************************************************************)

ListingNext ==
    \/ \E c \in Agents, k \in AllKeys : RequestActivationCode(c, k)
    \/ \E c \in Agents, k \in AllKeys, b \in BOOLEAN :
           VerifySocialActivation(c, k, b)
    \/ \E c \in Agents, k \in AllKeys, a \in ListingArgs : CreateListing(c, k, a)
    \/ \E c \in Agents, k \in AllKeys : GetListingApplications(c, k)
    \/ \E c \in Agents, k \in AllKeys, h \in Humans : MakeListingOffer(c, k, h)
    \/ \E c \in Agents, k \in AllKeys : CancelListing(c, k)
    \/ \E h \in Humans : HumanApplies(h)
    \/ ListingExpires
    \/ HumanAccept
    \/ HumanReject

ListingSpec == Init /\ [][ListingNext]_vars

(***************************************************************************)
(* Properties.                                                              *)
(***************************************************************************)
\* The edges of the Job status graph (spec.md 4.2 and 4.3).
LegalEdge(from, to, mode) ==
    \/ from = "NONE" /\ to = "PENDING"
    \/ from = "PENDING" /\ to \in {"ACCEPTED", "REJECTED"}
    \/ from = "ACCEPTED" /\ to = "PAID"
    \/ from = "PAID" /\ to = "COMPLETED"
    \/ from = "ACCEPTED" /\ to = "STREAMING" /\ mode = "STREAM"
    \/ from = "STREAMING" /\ to \in {"PAUSED", "COMPLETED"}
    \/ from = "PAUSED" /\ to \in {"STREAMING", "COMPLETED"}
    \/ from \in {"PAID", "STREAMING"} /\ to = "DISPUTED"
    \/ from \notin TerminalStatuses \cup {"NONE"} /\ to = "CANCELLED"

\* C1: a Job starts PENDING and every change of its status, under any
\* sequence of tool invocations and external events, is an edge of the
\* status graph; REJECTED, CANCELLED and COMPLETED are never left.
C1_StatusFollowsGraph ==
    [][job'.status # job.status
          => /\ LegalEdge(job.status, job'.status, job.paymentMode)
             /\ job.status \notin TerminalStatuses]_vars

\* A STREAM job that recorded ticks has ended COMPLETED.
C1_Witness ==
    /\ job.status = "COMPLETED"
    /\ job.paymentMode = "STREAM"
    /\ stream.tickCount > 0

\* C2: mark_job_paid on a Job whose status is not ACCEPTED returns an error
\* result and leaves the Job, its status and payment fields included, as it
\* was, whatever the transaction, network and amount submitted.
C2_MarkPaidNeedsAccepted ==
    \A t \in TxHashes, n \in Networks, amt \in Prices :
        job.status # "ACCEPTED"
            => /\ MarkJobPaidCall(t, n, amt).result.isError
               /\ MarkJobPaidCall(t, n, amt).job = job
               /\ MarkJobPaidCall(t, n, amt).response.code
                     \in {"INVALID_STATE", "NOT_FOUND"}

\* A PAID Job holding its payment fields, on which a second mark_job_paid
\* with a different amount is refused as a state error.
C2_Witness ==
    /\ job.status = "PAID"
    /\ job.paymentAmount = job.priceUsdc
    /\ \E amt \in Prices :
           /\ amt > job.paymentAmount
           /\ MarkJobPaidCall("0xa", "base", amt).result.isError
           /\ MarkJobPaidCall("0xa", "base", amt).response.code = "INVALID_STATE"

\* The agent_key of the agent that created the Job.
OwnerKey == KeyOf(job.agentId)

\* C3: leave_review succeeds only on a COMPLETED Job that has no review yet,
\* with a rating in 1..5, and then stores the rating; on a Job that is not
\* COMPLETED it fails with NOT_COMPLETED, on a reviewed Job with
\* ALREADY_REVIEWED, a failure changing nothing.
C3_ReviewOutcome ==
    \A r \in Ratings :
        LET o == LeaveReviewCall(r)
        IN  /\ ~o.result.isError
                  => /\ job.status = "COMPLETED" /\ job.review = 0 /\ r \in 1..5
                     /\ o.job = [job EXCEPT !.review = r]
            /\ o.result.isError => o.job = job
            /\ r \in 1..5 /\ job.status \notin {"NONE", "COMPLETED"}
                  => o.result.isError /\ o.response.code = "NOT_COMPLETED"
            /\ r \in 1..5 /\ job.status = "COMPLETED" /\ job.review # 0
                  => o.result.isError /\ o.response.code = "ALREADY_REVIEWED"

\* C3: a Job that has a review keeps that review and stays COMPLETED.
C3_ReviewStep ==
    job.review # 0 => job'.review = job.review /\ job'.status = "COMPLETED"

\* C3: both parts: the outcome of every leave_review invocation in every
\* reachable state, and at most one review over the whole life of a Job.
C3_ReviewOnce == []C3_ReviewOutcome /\ [][C3_ReviewStep]_vars

\* A reviewed Job on which a second review is refused.
C3_Witness ==
    /\ job.status = "COMPLETED"
    /\ job.review = 1
    /\ LeaveReviewCall(5).result.isError
    /\ LeaveReviewCall(5).response.code = "ALREADY_REVIEWED"

\* The outcomes of the mutating tools agent c can invoke with its own key.
MutatingCalls(c) ==
    {CreateJobOfferCall(KeyOf(c), o, b) : o \in Offers, b \in BOOLEAN}
    \cup {MarkJobPaidCall(t, n, amt) : t \in TxHashes, n \in Networks, amt \in Prices}
    \cup {LeaveReviewCall(r) : r \in Ratings}
    \cup {StartStreamCall(KeyOf(c), sd, n) : sd \in Senders, n \in Networks}
    \cup {RecordStreamTickCall(KeyOf(c), amt) : amt \in Rates}
    \cup {PauseStreamCall(KeyOf(c)), ResumeStreamCall(KeyOf(c)),
          StopStreamCall(KeyOf(c))}

\* C4: every mutating tool invoked by an agent whose status is PENDING (no
\* tool presents a payment proof) fails and changes no Job or stream state
\* and no agent's quota usage.  (The claim also names the failure's code,
\* AGENT_PENDING; failing at all is the part stated here.)
C4_PendingAgentRefused ==
    \A c \in Agents :
        agents[c].status = "PENDING"
            => \A o \in MutatingCalls(c) :
                   /\ o.result.isError
                   /\ o.job = job
                   /\ o.stream = stream
                   /\ o.agents = agents

\* C5: for a MICRO_TRANSFER stream the cumulative amount paid is the tick
\* count times the agreed per-interval rate in every reachable state, and
\* the cumulative amount never decreases.
C5_CumulativeMatchesTicks ==
    /\ [](job.streamMethod = "MICRO_TRANSFER"
            => stream.totalPaid = stream.tickCount * job.streamRateUsdc)
    /\ [][job.streamMethod = "MICRO_TRANSFER"
            => stream'.totalPaid >= stream.totalPaid]_vars

\* Two ticks verified at the rate 2.
C5_Witness ==
    /\ job.streamMethod = "MICRO_TRANSFER"
    /\ job.streamRateUsdc = MaxRate
    /\ stream.tickCount = 2
    /\ stream.totalPaid = 2 * MaxRate

\* C6: while a tick is pending on a MICRO_TRANSFER stream, record_stream_tick
\* for a transfer whose amount is not the agreed rate fails with
\* TICK_VERIFICATION_FAILED and leaves tick count, cumulative amount,
\* pending tick and Job status unchanged.
C6_BadTickRefused ==
    \A amt \in Rates :
        /\ job.status = "STREAMING"
        /\ job.streamMethod = "MICRO_TRANSFER"
        /\ stream.pendingTick # 0
        /\ amt # job.streamRateUsdc
        => /\ RecordStreamTickCall(OwnerKey, amt).result.isError
           /\ RecordStreamTickCall(OwnerKey, amt).response.code
                 = "TICK_VERIFICATION_FAILED"
           /\ RecordStreamTickCall(OwnerKey, amt).stream = stream
           /\ RecordStreamTickCall(OwnerKey, amt).job = job

\* After one verified tick the second is pending, and a transfer of another
\* amount is refused.
C6_Witness ==
    /\ job.status = "STREAMING"
    /\ stream.tickCount = 1
    /\ stream.pendingTick = 2
    /\ \E amt \in Rates :
           /\ amt # job.streamRateUsdc
           /\ RecordStreamTickCall(OwnerKey, amt).response.code
                 = "TICK_VERIFICATION_FAILED"

\* A STREAM Job whose stream has been stopped.
Stopped == job.paymentMode = "STREAM" /\ job.status = "COMPLETED"

\* C7: stop_stream by the Job's agent succeeds from STREAMING and from
\* PAUSED and leaves the Job COMPLETED; on a stopped stream every start,
\* pause, resume, tick and stop fails and changes nothing, a repeated stop
\* by the Job's agent failing with ALREADY_STOPPED.
C7_StopOutcome ==
    /\ job.status \in {"STREAMING", "PAUSED"}
          => /\ ~StopStreamCall(OwnerKey).result.isError
             /\ StopStreamCall(OwnerKey).job.status = "COMPLETED"
             /\ StopStreamCall(OwnerKey).stream.tickCount = stream.tickCount
             /\ StopStreamCall(OwnerKey).stream.totalPaid = stream.totalPaid
    /\ Stopped
          => /\ StopStreamCall(OwnerKey).response.code = "ALREADY_STOPPED"
             /\ \A o \in {StopStreamCall(k) : k \in AllKeys}
                       \cup {PauseStreamCall(k) : k \in AllKeys}
                       \cup {ResumeStreamCall(k) : k \in AllKeys}
                       \cup {RecordStreamTickCall(k, amt) : k \in AllKeys, amt \in Rates}
                       \cup {StartStreamCall(k, sd, n) :
                                 k \in AllKeys, sd \in Senders, n \in Networks} :
                    o.result.isError /\ o.job = job /\ o.stream = stream

\* C7: a stopped stream stays COMPLETED, and its tick count and cumulative
\* amount never change again.
C7_StoppedStep ==
    Stopped => /\ job'.status = "COMPLETED"
               /\ stream'.tickCount = stream.tickCount
               /\ stream'.totalPaid = stream.totalPaid

\* C7: both parts: the outcomes of the stream tools in every reachable state
\* and the permanence of COMPLETED after a stop.
C7_StopIsFinal == []C7_StopOutcome /\ [][C7_StoppedStep]_vars

\* A stream without a tick cap, stopped by stop_stream after one tick, on
\* which a second stop is refused.
C7_Witness ==
    /\ Stopped
    /\ job.streamMaxTicks = 0
    /\ stream.tickCount = 1
    /\ StopStreamCall(OwnerKey).result.isError
    /\ StopStreamCall(OwnerKey).response.code = "ALREADY_STOPPED"

\* C8: start_stream succeeds only on a STREAM-mode Job whose status is
\* ACCEPTED, leaving it STREAMING (MICRO_TRANSFER: tick 1 pending, nothing
\* counted or paid); every failure, wrong status or mode or a flow check
\* failing with FLOW_NOT_FOUND / FLOW_RATE_MISMATCH, leaves the Job and the
\* stream as they were.
C8_StartOutcome ==
    \A k \in AllKeys, sd \in Senders, n \in Networks :
        LET o == StartStreamCall(k, sd, n)
        IN  /\ ~o.result.isError
                  => /\ job.paymentMode = "STREAM" /\ job.status = "ACCEPTED"
                     /\ o.job.status = "STREAMING"
                     /\ job.streamMethod = "MICRO_TRANSFER"
                           => /\ o.stream.pendingTick = 1
                              /\ o.stream.tickCount = 0
                              /\ o.stream.totalPaid = 0
            /\ o.result.isError => o.job = job /\ o.stream = stream
            /\ /\ k = OwnerKey /\ sd # Absent
               /\ job.status = "ACCEPTED" /\ job.streamMethod = "SUPERFLUID"
               /\ flow # "OK"
               => /\ o.result.isError
                  /\ o.response.code = IF flow = "NONE" THEN "FLOW_NOT_FOUND"
                                       ELSE "FLOW_RATE_MISMATCH"

\* An ACCEPTED SUPERFLUID Job whose on-chain flow has the wrong rate:
\* start_stream is refused.
C8_Witness ==
    /\ job.status = "ACCEPTED"
    /\ job.streamMethod = "SUPERFLUID"
    /\ flow = "MISMATCH"
    /\ StartStreamCall(OwnerKey, "0xsender", "base").result.isError
    /\ StartStreamCall(OwnerKey, "0xsender", "base").response.code
          = "FLOW_RATE_MISMATCH"

\* C9: pause_stream succeeds only from STREAMING and leaves PAUSED;
\* resume_stream succeeds only from PAUSED and leaves STREAMING; for
\* SUPERFLUID a pause while the flow exists fails with FLOW_STILL_ACTIVE and
\* a resume without a verified flow fails; a failure changes nothing, and
\* neither tool ever changes the tick count or the cumulative amount.
C9_PauseResumeOutcome ==
    \A k \in AllKeys :
        LET p == PauseStreamCall(k)
            r == ResumeStreamCall(k)
        IN  /\ ~p.result.isError
                  => job.status = "STREAMING" /\ p.job.status = "PAUSED"
            /\ ~r.result.isError
                  => job.status = "PAUSED" /\ r.job.status = "STREAMING"
            /\ p.result.isError => p.job = job /\ p.stream = stream
            /\ r.result.isError => r.job = job /\ r.stream = stream
            /\ p.stream.tickCount = stream.tickCount
            /\ p.stream.totalPaid = stream.totalPaid
            /\ r.stream.tickCount = stream.tickCount
            /\ r.stream.totalPaid = stream.totalPaid
            /\ /\ k = OwnerKey /\ job.status = "STREAMING"
               /\ job.streamMethod = "SUPERFLUID" /\ flow # "NONE"
               => p.result.isError /\ p.response.code = "FLOW_STILL_ACTIVE"
            /\ /\ k = OwnerKey /\ job.status = "PAUSED"
               /\ job.streamMethod = "SUPERFLUID" /\ flow # "OK"
               => /\ r.result.isError
                  /\ r.response.code \in {"FLOW_NOT_FOUND", "FLOW_RATE_MISMATCH"}

\* A paused SUPERFLUID stream with credited intervals and no flow: resume is
\* refused.
C9_Witness ==
    /\ job.status = "PAUSED"
    /\ job.streamMethod = "SUPERFLUID"
    /\ flow = "NONE"
    /\ stream.tickCount > 0
    /\ ResumeStreamCall(OwnerKey).result.isError
    /\ ResumeStreamCall(OwnerKey).response.code = "FLOW_NOT_FOUND"

\* C10: when a MICRO_TRANSFER stream has a maximum tick count, the tick count
\* never exceeds it; once it is reached no tick is pending, the stream has
\* been stopped (COMPLETED) and no record_stream_tick succeeds.
C10_TickCap ==
    job.streamMethod = "MICRO_TRANSFER" /\ job.streamMaxTicks # 0
        => /\ stream.tickCount <= job.streamMaxTicks
           /\ stream.tickCount = job.streamMaxTicks
                 => /\ stream.pendingTick = 0
                    /\ job.status = "COMPLETED"
                    /\ \A k \in AllKeys, amt \in Rates :
                           /\ RecordStreamTickCall(k, amt).result.isError
                           /\ RecordStreamTickCall(k, amt).stream = stream

\* A stream capped at two ticks has recorded both.
C10_Witness ==
    /\ job.streamMethod = "MICRO_TRANSFER"
    /\ job.streamMaxTicks = 2
    /\ stream.tickCount = 2
    /\ job.status = "COMPLETED"

\* C11: on a MICRO_TRANSFER stream a tick is pending exactly while the Job is
\* STREAMING (which it is not once the cap is reached), and it is the tick
\* after the last recorded one; record_stream_tick by the Job's agent when
\* no tick is open (not yet started, PAUSED, stopped, or SUPERFLUID) fails
\* with NO_PENDING_TICK and changes nothing.
C11_PendingTickOpen ==
    /\ job.streamMethod = "MICRO_TRANSFER"
          => /\ stream.pendingTick # 0
                   <=> /\ job.status = "STREAMING"
                       /\ ~CapReached(job, stream.tickCount)
             /\ stream.pendingTick # 0 => stream.pendingTick = stream.tickCount + 1
    /\ /\ job.paymentMode = "STREAM"
       /\ job.streamMethod = "SUPERFLUID" \/ stream.pendingTick = 0
       => \A amt \in Rates :
              /\ RecordStreamTickCall(OwnerKey, amt).result.isError
              /\ RecordStreamTickCall(OwnerKey, amt).response.code = "NO_PENDING_TICK"
              /\ RecordStreamTickCall(OwnerKey, amt).job = job
              /\ RecordStreamTickCall(OwnerKey, amt).stream = stream

\* A paused MICRO_TRANSFER stream with one recorded tick: the pending tick
\* was skipped, and a tick at the agreed rate is refused.
C11_Witness ==
    /\ job.status = "PAUSED"
    /\ job.streamMethod = "MICRO_TRANSFER"
    /\ stream.tickCount = 1
    /\ stream.pendingTick = 0
    /\ RecordStreamTickCall(OwnerKey, job.streamRateUsdc).response.code
          = "NO_PENDING_TICK"

C17_PaidAmountCoversPrice ==
    \A t \in TxHashes, n \in Networks, amt \in Prices :
        job.status = "ACCEPTED" /\ job.paymentMode = "ONE_TIME"
        => LET out == MarkJobPaidCall(t, n, amt)
           IN  /\ amt >= job.priceUsdc
                     => /\ ~out.result.isError
                        /\ out.job = [job EXCEPT !.status = "PAID",
                                                 !.paymentTxHash = t,
                                                 !.paymentNetwork = n,
                                                 !.paymentAmount = amt]
               /\ amt < job.priceUsdc
                     => /\ out.result.isError
                        /\ out.response.code = "INSUFFICIENT_PAYMENT"
                        /\ out.job = job
                        /\ out.job.paymentTxHash = Absent

\* An ACCEPTED Job of price 2: an amount of 1 is refused, 2 is accepted.
C17_Witness ==
    /\ job.status = "ACCEPTED"
    /\ job.paymentMode = "ONE_TIME"
    /\ job.priceUsdc = MaxPrice
    /\ MarkJobPaidCall("0xa", "base", MaxPrice - 1).response.code
          = "INSUFFICIENT_PAYMENT"
    /\ MarkJobPaidCall("0xa", "base", MaxPrice).job.status = "PAID"

\* The verify_social_activation / verify_payment_activation invocations a
\* registered agent a can make with its own key.
SocialVerifications(a) == {VerifySocialActivationCall(KeyOf(a), b) : b \in BOOLEAN}

PaymentVerifications(a) == {VerifyPaymentActivationCall(KeyOf(a), p) : p \in Payments}

\* A verification that fails answers with an error and leaves every agent's
\* status and tier (and the activation state) as they were.
C20_FailureChangesNothing(out) ==
    out.result.isError => out.agents = agents /\ out.activation = activation

C20_FailedVerification ==
    \A a \in Agents : agents[a].status = "PENDING" =>
        /\ \A out \in SocialVerifications(a) \cup PaymentVerifications(a) :
               C20_FailureChangesNothing(out)
        /\ \A b \in BOOLEAN :
              LET out == VerifySocialActivationCall(KeyOf(a), b)
              IN  /\ activation[a].code = "EXPIRED"
                        => out.result.isError /\ out.response.code = "CODE_EXPIRED"
                  /\ activation[a].code \in {"NONE", "USED"} \/ ~b
                        => out.result.isError
                  /\ activation[a].code = "ISSUED" /\ ~b
                        => out.response.code = "CODE_NOT_FOUND_IN_POST"
        /\ \A p \in Payments :
              LET out == VerifyPaymentActivationCall(KeyOf(a), p)
              IN  /\ activation[a].deposit = "EXPIRED"
                        => out.result.isError /\ out.response.code = "PAYMENT_EXPIRED"
                  /\ activation[a].deposit = "ISSUED" /\ p = "NONE"
                        => out.result.isError /\ out.response.code = "PAYMENT_NOT_FOUND"
                  /\ activation[a].deposit = "ISSUED" /\ p = "LOW"
                        => out.result.isError
                           /\ out.response.code = "PAYMENT_INSUFFICIENT"

\* An ACTIVE agent's verification (its code or deposit is used up or was never
\* issued) fails and changes nothing.
C20_ReuseFails ==
    \A a \in Agents : agents[a].status = "ACTIVE" =>
        \A out \in SocialVerifications(a) \cup PaymentVerifications(a) :
            out.result.isError /\ out.agents = agents

\* A step that registers a makes it PENDING without a tier; a step that makes
\* a ACTIVE is a successful social verification giving BASIC or a successful
\* payment verification giving PRO; an ACTIVE agent stays ACTIVE, its tier
\* going from BASIC to PRO by a successful claim_free_pro_upgrade; no other
\* step changes status or tier.
C20_StatusStep ==
    \A a \in Agents :
        \/ agents'[a].status = agents[a].status /\ agents'[a].tier = agents[a].tier
        \/ /\ agents[a].status = "UNREGISTERED"
           /\ agents'[a] = NewAgent
        \/ /\ agents[a].status = "PENDING"
           /\ agents'[a].status = "ACTIVE"
           /\ \/ /\ agents'[a].tier = "BASIC"
                 /\ \E out \in SocialVerifications(a) :
                       /\ ~out.result.isError
                       /\ agents' = out.agents
                       /\ activation' = out.activation
              \/ /\ agents'[a].tier = "PRO"
                 /\ \E out \in PaymentVerifications(a) :
                       /\ ~out.result.isError
                       /\ agents' = out.agents
                       /\ activation' = out.activation
        \/ /\ agents[a].status = "ACTIVE" /\ agents'[a].status = "ACTIVE"
           /\ agents[a].tier = "BASIC" /\ agents'[a].tier = "PRO"
           /\ ~ClaimFreeProUpgradeCall(KeyOf(a)).result.isError
           /\ agents' = ClaimFreeProUpgradeCall(KeyOf(a)).agents

OfferCalls(a) ==
    {CreateJobOfferCall(KeyOf(a), o, b) : o \in Offers, b \in BOOLEAN}

\* No agent has used more of its window than its tier allows; an ACTIVE agent
\* with no quota left has every create_job_offer refused with RATE_LIMITED,
\* with no Job and no counter changed; one with quota left and a price the
\* Human accepts gets a Job, which uses one unit.
C18_QuotaState ==
    \A a \in Agents :
        /\ agents[a].offersUsed <= OfferAllowance(agents[a].tier)
        /\ agents[a].status = "ACTIVE"
              /\ agents[a].offersUsed >= OfferAllowance(agents[a].tier)
              => \A out \in OfferCalls(a) :
                    /\ out.result.isError
                    /\ out.response.code = "RATE_LIMITED"
                    /\ out.job = job
                    /\ out.agents = agents
        /\ agents[a].status = "ACTIVE"
              /\ agents[a].offersUsed < OfferAllowance(agents[a].tier)
              => \A o \in Offers, b \in BOOLEAN :
                    LET out == CreateJobOfferCall(KeyOf(a), o, b)
                    IN  o.priceUsdc >= HumanMinOfferPrice
                        => /\ out.job.status = "PENDING"
                           /\ out.job.agentId = a
                           /\ out.agents[a].offersUsed = agents[a].offersUsed + 1

\* A step that creates a Job uses exactly one unit of its agent's window; the
\* count of a window otherwise stays, or starts again from 0 when the window
\* has elapsed.
C18_QuotaStep ==
    \A a \in Agents :
        IF job.status = "NONE" /\ job'.status = "PENDING" /\ job'.agentId = a
        THEN agents'[a].offersUsed = agents[a].offersUsed + 1
        ELSE agents'[a].offersUsed \in {agents[a].offersUsed, 0}

\* C18: for an ACTIVE agent without payment proof the successful
\* create_job_offer calls of a tier window never exceed the tier's allowance
\* (BASIC 1 per 2 days, PRO 15 per day); a call with no quota left fails with
\* RATE_LIMITED, creates no Job and changes no counter.
C18_OfferQuota ==
    /\ []C18_QuotaState
    /\ [][C18_QuotaStep]_vars

\* A PRO agent has used its 15 offers and a BASIC agent its single one.
C18_Witness ==
    /\ agents["a1"].status = "ACTIVE" /\ agents["a1"].tier = "PRO"
    /\ agents["a1"].offersUsed = ProOfferAllowance
    /\ agents["a2"].status = "ACTIVE" /\ agents["a2"].tier = "BASIC"
    /\ agents["a2"].offersUsed = BasicOfferAllowance

\* C19: a registered agent, whatever its activation status, tier and remaining
\* quota, is able to make a create_job_offer call that presents a payment
\* proof: for an offer the Human accepts the call proceeds, a Job of the agent
\* is created, and no agent's quota usage changes.
C19_PayPerUseProceeds ==
    \A a \in Agents :
        agents[a].status # "UNREGISTERED" /\ job.status = "NONE"
            => \E k \in CallerKeys(a), o \in Offers, b \in BOOLEAN :
                  LET out == CreateJobOfferCall(k, o, b)
                  IN  /\ ~out.result.isError
                      /\ out.job.status = "PENDING"
                      /\ out.job.agentId = a
                      /\ out.agents = agents

\* The Job that converting the Application of h creates.
C13_JobFor(h) ==
    [NoJob EXCEPT !.status = "PENDING", !.agentId = listing.agentId,
                  !.humanId = h, !.priceUsdc = listing.budgetUsdc,
                  !.paymentMode = "ONE_TIME"]

C13_NothingChanged(out) ==
    /\ out.result.isError
    /\ out.job = job
    /\ out.listing = listing
    /\ out.apps = apps
    /\ out.agents = agents

\* make_listing_offer on an existing Application of h, by every registered
\* agent: the owner converts a PENDING one, is refused on any other; a
\* non-owner is refused.
C13_OfferOutcome ==
    \A a \in Agents, h \in Humans :
        LET out == MakeListingOfferCall(KeyOf(a), h)
        IN  listing.status # "NONE" /\ apps[h] # "NONE"
            => /\ a = listing.agentId /\ apps[h] = "PENDING"
                    => /\ ~out.result.isError
                       /\ out.job = C13_JobFor(h)
                       /\ out.apps = [apps EXCEPT ![h] = "OFFERED"]
                       /\ out.listing = [listing EXCEPT !.status = "CLOSED"]
                       /\ out.agents = agents
               /\ a = listing.agentId /\ apps[h] # "PENDING"
                    => /\ out.response.code = "APPLICATION_NOT_PENDING"
                       /\ C13_NothingChanged(out)
               /\ a # listing.agentId
                    => /\ out.response.code = "NOT_LISTING_OWNER"
                       /\ C13_NothingChanged(out)

\* A step in which a Job appears converts exactly one PENDING Application.
C13_OfferStep ==
    job.status = "NONE" /\ job'.status = "PENDING"
        => /\ apps[job'.humanId] = "PENDING"
           /\ job' = C13_JobFor(job'.humanId)
           /\ apps' = [apps EXCEPT ![job'.humanId] = "OFFERED"]
           /\ listing' = [listing EXCEPT !.status = "CLOSED"]

C14_NothingChanged(out) ==
    /\ out.result.isError
    /\ out.listing = listing
    /\ out.apps = apps
    /\ out.job = job
    /\ out.agents = agents

\* cancel_listing by every registered agent on the Listing.
C14_CancelOutcome ==
    \A a \in Agents :
        LET out == CancelListingCall(KeyOf(a))
        IN  listing.status # "NONE"
            => /\ a = listing.agentId /\ listing.status = "OPEN"
                    => /\ ~out.result.isError
                       /\ out.listing = [listing EXCEPT !.status = "CANCELLED"]
                       /\ out.apps = [h \in Humans |->
                                         IF apps[h] = "PENDING" THEN "REJECTED"
                                         ELSE apps[h]]
                       /\ out.job = job
               /\ a = listing.agentId /\ listing.status # "OPEN"
                    => /\ out.response.code = "ALREADY_CLOSED"
                       /\ C14_NothingChanged(out)
               /\ a # listing.agentId
                    => /\ out.response.code = "NOT_LISTING_OWNER"
                       /\ C14_NothingChanged(out)

\* On a CANCELLED Listing no Application is PENDING and none is accepted.
C14_Cancelled ==
    listing.status = "CANCELLED"
        => \A h \in Humans :
              /\ apps[h] # "PENDING"
              /\ ~AcceptsApplication(listing, apps, h)
              /\ BackendApply(listing, apps, h) = apps

\* What the owner's get_listing_applications shows.
C14_Observed == GetListingApplicationsCall(KeyOf(listing.agentId))

\* Once CANCELLED, the Listing, its Applications and what the owner observes
\* of them stay as they are.
C14_CancelledStep ==
    listing.status = "CANCELLED"
        => /\ listing' = listing
           /\ apps' = apps
           /\ C14_Observed' = C14_Observed

\* C14: cancel_listing by the owner on an OPEN Listing sets it CANCELLED and
\* every PENDING Application REJECTED; from then on no Application can be
\* created and repeated observation gives the same result; a non-owner's
\* cancel fails with NOT_LISTING_OWNER and the cancel of a Listing that is not
\* OPEN with ALREADY_CLOSED, both changing no Listing and no Application.
C14_CancelListing ==
    /\ [](C14_CancelOutcome /\ C14_Cancelled)
    /\ [][C14_CancelledStep]_vars

\* A Listing with one Application was cancelled: the Application is REJECTED
\* and the second Human has not got in.
C14_Witness ==
    /\ listing.status = "CANCELLED"
    /\ listing.maxApplicants = 2
    /\ apps = [h \in Humans |-> IF h = "h1" THEN "REJECTED" ELSE "NONE"]

C15_CloseStep ==
    /\ listing.status # "CLOSED" /\ listing'.status = "CLOSED"
          => \E h \in Humans :
                /\ apps[h] = "PENDING"
                /\ apps' = [apps EXCEPT ![h] = "OFFERED"]
    /\ \A h \in Humans :
          apps[h] = "PENDING" /\ apps'[h] = "REJECTED"
              => listing.status = "OPEN" /\ listing'.status = "CANCELLED"

C16_Acceptance ==
    /\ ApplicationCount(apps) <= listing.maxApplicants
    /\ \A h \in Humans :
          /\ listing.status \in {"CLOSED", "CANCELLED", "EXPIRED"}
                => BackendApply(listing, apps, h) = apps
          /\ ApplicationCount(apps) >= listing.maxApplicants
                => BackendApply(listing, apps, h) = apps
          /\ listing.status = "OPEN" /\ apps[h] = "NONE"
                /\ ApplicationCount(apps) < listing.maxApplicants
                => BackendApply(listing, apps, h) = [apps EXCEPT ![h] = "PENDING"]

\* A step in which an Application appears starts at an OPEN Listing below
\* its cap, and the Application is PENDING.
C16_ApplyStep ==
    \A h \in Humans :
        apps[h] = "NONE" /\ apps'[h] # "NONE"
            => /\ listing.status = "OPEN"
               /\ ApplicationCount(apps) < listing.maxApplicants
               /\ apps'[h] = "PENDING"
               /\ listing' = listing

\* C16: a Listing accepts a new Application only while it is OPEN, its expiry
\* has not passed and it has fewer Applications than maxApplicants; so the
\* number of Applications never exceeds maxApplicants, and none is created
\* once the Listing is CLOSED, CANCELLED or EXPIRED (with maxApplicants = 1 a
\* second attempt is rejected).
C16_AcceptsWhileOpenBelowCap ==
    /\ []C16_Acceptance
    /\ [][C16_ApplyStep]_vars

\* An OPEN Listing with maxApplicants = 1 has its one Application; the second
\* Human is shut out.
C16_Witness ==
    /\ listing.status = "OPEN"
    /\ listing.maxApplicants = 1
    /\ apps = [h \in Humans |-> IF h = "h1" THEN "PENDING" ELSE "NONE"]
    /\ BackendApply(listing, apps, "h2") = apps

\* The promo never gives out more upgrades than it has slots, and
\* get_promo_status reports what remains; the claim of a registered agent
\* succeeds, making its tier PRO and taking one slot, when the agent is
\* ACTIVE at BASIC and a slot remains, and otherwise fails and changes nothing.
C21_PromoState ==
    /\ PromoClaimed(activation) <= PromoCapacity
    /\ GetPromoStatusCall.status.remaining = PromoCapacity - PromoClaimed(activation)
    /\ \A a \in Agents : agents[a].status # "UNREGISTERED" =>
          LET out == ClaimFreeProUpgradeCall(KeyOf(a))
              eligible == agents[a].status = "ACTIVE" /\ agents[a].tier = "BASIC"
              slot == PromoClaimed(activation) < PromoCapacity
          IN  /\ eligible /\ slot
                    => /\ ~out.result.isError
                       /\ out.agents = [agents EXCEPT ![a].tier = "PRO"]
                       /\ PromoClaimed(out.activation) = PromoClaimed(activation) + 1
              /\ ~(eligible /\ slot)
                    => /\ out.result.isError
                       /\ out.agents = agents
                       /\ out.activation = activation
              /\ ~eligible /\ slot => out.response.code = "TIER_INELIGIBLE"
              /\ eligible /\ ~slot => out.response.code = "PROMO_EXHAUSTED"
              /\ ~eligible /\ ~slot
                    => out.response.code \in {"TIER_INELIGIBLE", "PROMO_EXHAUSTED"}

\* An agent's upgrade, once claimed, stays claimed, and it is claimed in a
\* step that takes the agent from ACTIVE at BASIC to PRO: so each agent
\* succeeds at most once.
C21_PromoStep ==
    \A a \in Agents :
        /\ activation[a].promo /\ agents[a].status # "UNREGISTERED"
              => activation'[a].promo
        /\ ~activation[a].promo /\ activation'[a].promo
              => /\ agents[a].status = "ACTIVE" /\ agents[a].tier = "BASIC"
                 /\ agents'[a].tier = "PRO"
                 /\ PromoClaimed(activation) < PromoCapacity

\* C21: under any interleaving of claim_free_pro_upgrade calls the number of
\* successful upgrades never exceeds the promo capacity, each agent succeeds
\* at most once, and a claim succeeds only for an agent that is ACTIVE with
\* tier BASIC (otherwise TIER_INELIGIBLE, or PROMO_EXHAUSTED when no slot
\* remains), whose tier then becomes PRO.
C21_PromoUpgrade ==
    /\ []C21_PromoState
    /\ [][C21_PromoStep]_vars

\* One agent has taken the last slot and is PRO; the other, ACTIVE at BASIC,
\* finds the promo exhausted.
C21_Witness ==
    /\ activation["a1"].promo /\ agents["a1"].tier = "PRO"
    /\ agents["a2"].status = "ACTIVE" /\ agents["a2"].tier = "BASIC"
    /\ ClaimFreeProUpgradeCall(KeyOf("a2")).response.code = "PROMO_EXHAUSTED"

C22_IsPrefix(s, t) == Len(s) <= Len(t) /\ SubSeq(t, 1, Len(s)) = s

\* What the Job's agent gets from get_job_messages.
C22_Observed == GetJobMessagesCall(OwnerKey).messages

\* send_job_message by the Job's agent, within its message rate: in the
\* statuses that take messages it appends its message at the end of the log,
\* in every other status it fails with JOB_CLOSED and the log stays;
\* get_job_messages shows the log.
C22_SendOutcome ==
    job.status # "NONE" =>
        /\ C22_Observed = job.messages
        /\ \A m \in Contents :
              LET out == SendJobMessageCall(OwnerKey, m, TRUE)
              IN  /\ job.status \in MessageStatuses
                        => /\ ~out.result.isError
                           /\ out.job = [job EXCEPT !.messages =
                                 Append(@, [senderType |-> "agent", content |-> m])]
                  /\ job.status \notin MessageStatuses
                        => /\ out.result.isError
                           /\ out.response.code = "JOB_CLOSED"
                           /\ out.job = job

\* Every step leaves the Job's log as it was or adds one entry at its end, in
\* no step outside the statuses that take messages; what get_job_messages
\* showed before is a prefix of what it shows after.
C22_LogStep ==
    job.status # "NONE" =>
        /\ C22_IsPrefix(job.messages, job'.messages)
        /\ Len(job'.messages) <= Len(job.messages) + 1
        /\ job'.messages # job.messages => job.status \in MessageStatuses
        /\ C22_IsPrefix(C22_Observed, C22_Observed')

\* C22: send_job_message succeeds exactly when the Job's status is one of
\* PENDING, ACCEPTED, PAID, STREAMING, PAUSED and otherwise fails with
\* JOB_CLOSED; each success appends exactly one message at the end of the
\* Job's log and no entry is ever removed, changed or reordered, so every
\* result of get_job_messages is a prefix of every later one for the Job.
C22_MessageLog ==
    /\ []C22_SendOutcome
    /\ [][C22_LogStep]_vars

\* The agent wrote on a stream Job, the Human answered, and the Job has since
\* been cancelled: a further message is refused.
C22_Witness ==
    /\ job.status = "CANCELLED"
    /\ job.paymentMode = "STREAM"
    /\ job.messages = <<[senderType |-> "agent", content |-> "m2"],
                        [senderType |-> "human", content |-> "reply"]>>
    /\ SendJobMessageCall(OwnerKey, "m1", TRUE).response.code = "JOB_CLOSED"

\* C23: an invocation that fails returns a result with isError set, and a
\* failed invocation does not change the outcome of any later invocation: it
\* leaves the Job, the stream and the agents' quota usage, on which the later
\* outcomes depend, as they were.
C23_FailureIsIndependent ==
    \A c \in Agents :
        \A out \in MutatingCalls(c) \cup {UnknownToolCall} :
            out.result.isError
                => /\ out.job = job
                   /\ out.stream = stream
                   /\ out.agents = agents

\* The texts the collaborator sent with a rejection.
C24_CollaboratorTexts(res) ==
    {res.error, res.reason, res.hint, res.message} \ {Absent}

\* C24: when the collaborator rejects a request with a structured error, the
\* tool's error result carries the collaborator's reason unchanged; the
\* client never replaces it by text of its own.
C24_ErrorPassedThrough ==
    \A c \in Agents :
        \A out \in MutatingCalls(c) :
            out.result.isError /\ C24_CollaboratorTexts(out.response) # {}
                => \E t \in C24_CollaboratorTexts(out.response) :
                      out.result.text = "Error: " \o t

\* The result and the requests of an invocation.
C25_Sent(out) == [result |-> out.result, requests |-> out.requests]

\* One invocation without agent_key of the tools whose input schema requires
\* agent_key.
C25_KeylessCalls ==
    {C25_Sent(CreateJobOfferCall(NoKey, o, TRUE)) : o \in Offers}
    \cup {C25_Sent(StartStreamCall(NoKey, sd, n)) : sd \in Senders, n \in Networks}
    \cup {C25_Sent(RecordStreamTickCall(NoKey, amt)) : amt \in Rates}
    \cup {C25_Sent(SendJobMessageCall(NoKey, m, TRUE)) : m \in Contents}
    \cup {C25_Sent(VerifySocialActivationCall(NoKey, b)) : b \in BOOLEAN}
    \cup {C25_Sent(VerifyPaymentActivationCall(NoKey, pd)) : pd \in Payments}
    \cup {C25_Sent(CreateListingCall(NoKey, a)) : a \in ListingArgs}
    \cup {C25_Sent(MakeListingOfferCall(NoKey, h)) : h \in Humans}
    \cup {C25_Sent(VerifyAgentDomainCall(NoKey, b)) : b \in BOOLEAN}
    \cup {C25_Sent(PauseStreamCall(NoKey)), C25_Sent(ResumeStreamCall(NoKey)),
          C25_Sent(StopStreamCall(NoKey)), C25_Sent(GetJobMessagesCall(NoKey)),
          C25_Sent(RequestActivationCodeCall(NoKey)),
          C25_Sent(GetPaymentActivationCall(NoKey)),
          C25_Sent(ClaimFreeProUpgradeCall(NoKey)),
          C25_Sent(CancelListingCall(NoKey))}

\* C25: an invocation, with a missing or empty agent_key, of a tool whose
\* input schema requires agent_key (verify_agent_domain included) returns an
\* error result raised locally and sends no request to the collaborator.
C25_MissingKeyStaysLocal ==
    \A r \in C25_KeylessCalls :
        /\ r.result.isError
        /\ r.requests = <<>>

\* C26: leave_review with a rating outside 1..5 is rejected locally with an
\* error result before any request is sent, so an out-of-range rating never
\* reaches the review endpoint.
C26_BadRatingStaysLocal ==
    \A r \in Ratings :
        r \notin 1..5
            => /\ LeaveReviewCall(r).result.isError
               /\ LeaveReviewCall(r).requests = <<>>

(***************************************************************************)
(* mark_job_paid in steps: the handler sends its PATCH and awaits fetch;   *)
(* the collaborator may answer; the network layer may fail the fetch; the  *)
(* handler then returns.  The handler passes fetch no signal and starts no *)
(* timer, so nothing in it ends the wait.                                  *)
(***************************************************************************)

\* const res = await fetch(`${API_BASE}/api/jobs/${args?.job_id}/paid`, ...)
MarkJobPaidSends(caller, s, txHash, amount) ==
    /\ caller \in Agents
    /\ call[s].phase = "idle"
    /\ call' = [call EXCEPT ![s] = [NoCall EXCEPT !.phase = "waiting",
                                                  !.txHash = txHash,
                                                  !.amount = amount]]
    /\ UNCHANGED <<agents, job, stream, flow, activation, listing, apps, human>>

\* The collaborator serves the request and answers it.
CollaboratorAnswers(s) ==
    /\ call[s].phase = "waiting"
    /\ LET out == BackendMarkPaid(job, call[s].txHash, "base", call[s].amount)
       IN  /\ job' = out.job
           /\ call' = [call EXCEPT ![s].phase = "answered", ![s].res = out.res]
    /\ UNCHANGED <<agents, stream, flow, activation, listing, apps, human>>

\* The network layer rejects the fetch (connection lost, or a limit of the
\* runtime's own): the await throws into the handler's catch block.
FetchRejects(s) ==
    /\ call[s].phase = "waiting"
    /\ call' = [call EXCEPT ![s].phase = "failed"]
    /\ UNCHANGED <<agents, job, stream, flow, activation, listing, apps, human>>

\* The result of the invocation, once its await has settled.
MarkJobPaidSettled(s) ==
    IF call[s].phase = "failed" THEN ErrorResult("fetch failed")
    ELSE MarkJobPaidResult(call[s].res)

\* return { content: [...] }, or the catch block's error result.
MarkJobPaidReturns(s) ==
    /\ call[s].phase \in {"answered", "failed"}
    /\ call' = [call EXCEPT ![s].phase = "idle",
                            ![s].result = MarkJobPaidSettled(s)]
    /\ UNCHANGED <<agents, job, stream, flow, activation, listing, apps, human>>

TimeoutNext ==
    \/ \E c \in Agents, k \in AllKeys : RequestActivationCode(c, k)
    \/ \E c \in Agents, k \in AllKeys, b \in BOOLEAN :
           VerifySocialActivation(c, k, b)
    \/ \E c \in Agents, k \in AllKeys, o \in OneTimeOffers :
           CreateJobOffer(c, k, o, TRUE)
    \/ HumanAccept
    \/ \E c \in Agents, s \in Slots, t \in TxHashes, amt \in Prices :
           MarkJobPaidSends(c, s, t, amt)
    \/ \E s \in Slots : CollaboratorAnswers(s)
    \/ \E s \in Slots : FetchRejects(s)
    \/ \E s \in Slots : MarkJobPaidReturns(s)

\* The handler runs on once its await has settled; nothing obliges the
\* collaborator to answer or the network layer to give up.
TimeoutSpec ==
    /\ Init
    /\ [][TimeoutNext]_vars
    /\ \A s \in Slots : WF_vars(MarkJobPaidReturns(s))

C28_Sent(out) ==
    [result |-> out.result, requests |-> out.requests, response |-> out.response]

\* One invocation of every tool that writes, with every key and argument,
\* and of a tool the server does not know.
C28_Calls ==
    {C28_Sent(UnknownToolCall)}
    \cup {C28_Sent(RegisterAgentCall(a, b)) : a \in Agents, b \in BOOLEAN}
    \cup {C28_Sent(MarkJobPaidCall(t, n, amt)) :
              t \in TxHashes, n \in Networks, amt \in Prices}
    \cup {C28_Sent(LeaveReviewCall(r)) : r \in Ratings}
    \cup UNION {
           {C28_Sent(CreateJobOfferCall(k, o, b)) : o \in Offers, b \in BOOLEAN}
           \cup {C28_Sent(StartStreamCall(k, sd, n)) : sd \in Senders, n \in Networks}
           \cup {C28_Sent(RecordStreamTickCall(k, amt)) : amt \in Rates}
           \cup {C28_Sent(SendJobMessageCall(k, m, b)) : m \in Contents, b \in BOOLEAN}
           \cup {C28_Sent(VerifySocialActivationCall(k, b)) : b \in BOOLEAN}
           \cup {C28_Sent(VerifyPaymentActivationCall(k, pd)) : pd \in Payments}
           \cup {C28_Sent(CreateListingCall(k, a)) : a \in ListingArgs}
           \cup {C28_Sent(MakeListingOfferCall(k, h)) : h \in Humans}
           \cup {C28_Sent(VerifyAgentDomainCall(k, b)) : b \in BOOLEAN}
           \cup {C28_Sent(PauseStreamCall(k)), C28_Sent(ResumeStreamCall(k)),
                 C28_Sent(StopStreamCall(k)),
                 C28_Sent(RequestActivationCodeCall(k)),
                 C28_Sent(GetPaymentActivationCall(k)),
                 C28_Sent(ClaimFreeProUpgradeCall(k)),
                 C28_Sent(CancelListingCall(k))}
           : k \in AllKeys}

\* The mutating requests among those an invocation sent.
C28_Writes(requests) ==
    {i \in 1..Len(requests) : requests[i].method \in {"POST", "PATCH", "DELETE"}}

\* C28: each tool invocation sends at most one mutating request (POST, PATCH
\* or DELETE) and, once a request of the invocation has failed, sends no
\* further request: the failure is the invocation's result.  create_job_offer
\* is the one handler with a second request (its read of the Human), sent
\* only after its POST succeeded.
C28_OneWriteNoneAfterFailure ==
    /\ \A r \in C28_Calls :
           /\ Cardinality(C28_Writes(r.requests)) <= 1
           /\ r.requests # <<>> /\ ~r.response.ok => r.result.isError
    /\ \A k \in AllKeys : Cardinality(C28_Writes(GetJobMessagesCall(k).requests)) = 0
    /\ \A k \in Keys, o \in Offers, b \in BOOLEAN :
           ~BackendCreateJob(agents, job, k, FALSE, o).res.ok
               => /\ CreateJobOfferCall(k, o, b).requests = <<Request("POST", "/api/jobs", k)>>
                  /\ CreateJobOfferCall(k, o, b).result.isError

\* A Job is in progress; its agent's next create_job_offer would be created
\* and then fail at the read of the Human (two requests, one of them a
\* write), while another agent's offer fails at its POST and sends nothing
\* more.
C28_Witness ==
    /\ job.status = "ACCEPTED"
    /\ \E k \in Keys, o \in Offers :
           /\ Len(CreateJobOfferCall(k, o, FALSE).requests) = 2
           /\ CreateJobOfferCall(k, o, FALSE).result.isError
    /\ \E k \in Keys, o \in Offers :
           /\ ~BackendCreateJob(agents, job, k, FALSE, o).res.ok
           /\ Len(CreateJobOfferCall(k, o, TRUE).requests) = 1

(***************************************************************************)
(* Human profiles: search_humans and get_human show public fields; the     *)
(* gated full-profile read, get_human_profile, shows the private ones.     *)
(***************************************************************************)

\* GET /api/humans/search: the Human, unless the filter leaves it out.  The
\* records the collaborator sends are taken to be whole (the Human interface
\* has the private fields on every Human it types).
BackendSearch(h, available) ==
    IF available /\ ~h.isAvailable THEN <<>> ELSE <<h>>

\* GET /api/humans/:id/profile: the permission check of "view full profile",
\* then the whole record.
BackendGetProfile(ag, key, h) ==
    IF PermissionCode(ag, key, FALSE) # "OK"
    THEN [res |-> ErrorResponse(PermissionCode(ag, key, FALSE)), human |-> h]
    ELSE [res |-> OkResponse(200, Absent), human |-> h]

\* One entry of the summary of search_humans.
SearchHumansEntry(h) ==
    "- **" \o h.name \o "** "
    \o (IF h.isAvailable THEN "Available" ELSE "Busy")
    \o " Skills: " \o Or(h.skills, "None listed")

\* available_only: args?.available_only !== false.
SearchHumansCall(h, availableOnly) ==
    LET req == Request("GET", "/api/humans/search", NoKey)
        humans == BackendSearch(h, availableOnly)
    IN  [result |->
             IF Len(humans) = 0
             THEN SuccessResult("No humans found matching the criteria.")
             ELSE SuccessResult("Found " \o ToString(Len(humans)) \o " human(s): "
                                \o SearchHumansEntry(humans[1])
                                \o " _Contact info and wallets require an ACTIVE agent._"),
         requests |-> <<req>>]

\* As GetHumanDetails, with the contact channel in the text.
GetHumanDetails_WithContact(h) ==
    "# " \o h.name \o " "
    \o (IF h.isAvailable THEN "Available" ELSE "Not Available")
    \o " Skills: " \o Or(h.skills, "None listed")
    \o " Contact & Payment: " \o Or(h.contactEmail, "Not provided")

\* const details = `# ${human.name} ... ## Contact & Payment _Available via
\* get_human_profile (requires ACTIVE agent)._ ...`
GetHumanDetails(h) ==
    "# " \o h.name \o " "
    \o (IF h.isAvailable THEN "Available" ELSE "Not Available")
    \o " Skills: " \o Or(h.skills, "None listed")
    \o " Contact & Payment: _Available via get_human_profile_"

\* get_human; humanOk: the collaborator knows the id.
GetHumanCall(h, humanOk) ==
    LET req == Request("GET", "/api/humans/:id", NoKey)
    IN  [result |-> IF ~humanOk THEN ErrorResult("Human not found: h1")
                    ELSE SuccessResult(GetHumanDetails(h)),
         requests |-> <<req>>]

GetHumanProfileResult(res, h) ==
    IF ~res.ok
    THEN IF res.status = 403 /\ res.code = "AGENT_PENDING"
         THEN ErrorResult("Agent is not yet activated. Activate first using "
                          \o "request_activation_code or get_payment_activation.")
         ELSE ErrorResult(Or(res.error, ApiError(res)))
    ELSE SuccessResult("# " \o h.name \o " - Full Profile"
                       \o " Email: " \o Or(h.contactEmail, "Not provided")
                       \o " Wallets: " \o Or(h.wallet, "No wallets added")
                       \o " Fiat: " \o Or(h.fiat, "No fiat payment methods added")
                       \o " Social: " \o Or(h.linkedinUrl, "No social profiles added"))

\* headers: { 'X-Agent-Key': agentKey } only.
GetHumanProfileCall(h, key) ==
    LET req == Request("GET", "/api/humans/:id/profile", key)
        out == BackendGetProfile(agents, req.agentKey, h)
    IN  IF KeyMissing(key)
        THEN [result |-> ErrorResult("agent_key is required. Register and activate first."),
              requests |-> <<>>]
        ELSE [result |-> GetHumanProfileResult(out.res, out.human),
              requests |-> <<req>>]

SearchHumans(caller, availableOnly) ==
    /\ caller \in Agents
    /\ ~SearchHumansCall(human, availableOnly).result.isError
    /\ UNCHANGED vars

GetHuman(caller, humanOk) ==
    /\ caller \in Agents
    /\ GetHumanCall(human, humanOk).result.isError = ~humanOk
    /\ UNCHANGED vars

GetHumanProfile(caller, key) ==
    /\ key \in CallerKeys(caller)
    /\ GetHumanProfileCall(human, key).result.isError \in BOOLEAN
    /\ UNCHANGED vars

\* The Human's own account changes its profile.
HumanEditsProfile(h) ==
    /\ h \in HumanRecords \ {human}
    /\ human' = h
    /\ UNCHANGED <<agents, job, stream, flow, activation, listing, apps, call>>

ProfileNext ==
    \/ \E c \in Agents, k \in AllKeys : RequestActivationCode(c, k)
    \/ \E c \in Agents, k \in AllKeys, b \in BOOLEAN :
           VerifySocialActivation(c, k, b)
    \/ \E c \in Agents, b \in BOOLEAN : SearchHumans(c, b)
    \/ \E c \in Agents, b \in BOOLEAN : GetHuman(c, b)
    \/ \E c \in Agents, k \in AllKeys : GetHumanProfile(c, k)
    \/ \E h \in HumanRecords : HumanEditsProfile(h)

ProfileSpec == Init /\ [][ProfileNext]_vars

\* Two profiles with the same public fields.
C29_SamePublic(h1, h2) ==
    /\ h1.name = h2.name
    /\ h1.isAvailable = h2.isAvailable
    /\ h1.skills = h2.skills

C29_PublicPart(h) ==
    [h EXCEPT !.contactEmail = Absent, !.wallet = Absent, !.fiat = Absent,
              !.linkedinUrl = Absent]

KeyNext ==
    \/ \E a \in Agents, b \in BOOLEAN : RegisterAgent(a, b)
    \/ \E c \in Agents, k \in AllKeys : RequestActivationCode(c, k)
    \/ \E c \in Agents, k \in AllKeys, b \in BOOLEAN :
           VerifySocialActivation(c, k, b)
    \/ \E c \in Agents, k \in AllKeys, o \in OneTimeOffers :
           CreateJobOffer(c, k, o, TRUE)
    \/ \E c \in Agents, k \in AllKeys : ClaimFreeProUpgrade(c, k)
    \/ \E a \in Agents : CodeExpires(a)
    \/ HumanAccept
    \/ \E c \in Agents, t \in TxHashes, n \in Networks :
           MarkJobPaid(c, t, n, MaxPrice)
    \/ ForgetJob

KeySpec == AgentInit /\ [][KeyNext]_vars

\* part occurs in text.
C30_Contains(text, part) ==
    \E i \in 1..(Len(text) - Len(part) + 1) :
        SubSeq(text, i, i + Len(part) - 1) = part

\* The results of one invocation of every tool but register_agent, with
\* every key and argument.
C30_OtherResults ==
    {r.result : r \in C28_Calls \ {C28_Sent(RegisterAgentCall(a, b)) :
                                       a \in Agents, b \in BOOLEAN}}
    \cup {GetPromoStatusCall.result}
    \cup {SearchHumansCall(human, b).result : b \in BOOLEAN}
    \cup {GetHumanCall(human, b).result : b \in BOOLEAN}
    \cup UNION {{GetJobMessagesCall(k).result,
                 GetListingApplicationsCall(k).result,
                 GetHumanProfileCall(human, k).result} : k \in AllKeys}

\* C30: an API key is in a tool result only if the result is that of the
\* register_agent invocation which created the key's agent; no other result,
\* success or error, contains a key, and a failed registration or the
\* registration of another agent does not show a key issued earlier.
C30_KeyShownOnceAtCreation ==
    /\ \A r \in C30_OtherResults, k \in Keys : ~C30_Contains(r.text, k)
    /\ \A a \in Agents, b \in BOOLEAN, k \in Keys :
           agents[a].status = "UNREGISTERED"
               => (C30_Contains(RegisterAgentCall(a, b).result.text, k)
                       <=> /\ k = KeyOf(a)
                           /\ RegisterAgentCall(a, b).response.ok
                           /\ RegisterAgentCall(a, b).agents[a].status = "PENDING")

\* Agent a1 holds a key and has made an offer with it; the registration that
\* creates a2 shows a2's key and not a1's.
C30_Witness ==
    /\ agents["a1"].status = "ACTIVE"
    /\ agents["a2"].status = "UNREGISTERED"
    /\ job.status = "ACCEPTED"
    /\ C30_Contains(RegisterAgentCall("a2", TRUE).result.text, KeyOf("a2"))
    /\ ~C30_Contains(RegisterAgentCall("a2", TRUE).result.text, KeyOf("a1"))
    /\ ~C30_Contains(CreateJobOfferCall(KeyOf("a1"), CHOOSE o \in OneTimeOffers : TRUE,
                                        TRUE).result.text, KeyOf("a1"))

(***************************************************************************)
(* The tools the server lists and the tools its call handler implements.   *)
(***************************************************************************)

\* tools/list: name, the first words of the description, inputSchema.type.
ListedTools ==
    <<
      [name |-> "search_humans", description |-> "Search for humans available", schemaType |-> "object"],
      [name |-> "get_human", description |-> "Get detailed information abo", schemaType |-> "object"],
      [name |-> "register_agent", description |-> "Register as an agent on Huma", schemaType |-> "object"],
      [name |-> "get_agent_profile", description |-> "Get a registered agents publ", schemaType |-> "object"],
      [name |-> "verify_agent_domain", description |-> "Verify domain ownership for", schemaType |-> "object"],
      [name |-> "create_job_offer", description |-> "Create a job offer for a hum", schemaType |-> "object"],
      [name |-> "get_job_status", description |-> "Check the status of a job of", schemaType |-> "object"],
      [name |-> "mark_job_paid", description |-> "Record that payment has been", schemaType |-> "object"],
      [name |-> "check_humanity_status", description |-> "Check the humanity verificat", schemaType |-> "object"],
      [name |-> "leave_review", description |-> "Leave a review for a COMPLET", schemaType |-> "object"],
      [name |-> "get_human_profile", description |-> "Get the full profile of a hu", schemaType |-> "object"],
      [name |-> "request_activation_code", description |-> "Request an activation code H", schemaType |-> "object"],
      [name |-> "verify_social_activation", description |-> "Verify a social media post c", schemaType |-> "object"],
      [name |-> "get_activation_status", description |-> "Check the current activation", schemaType |-> "object"],
      [name |-> "get_payment_activation", description |-> "Get a deposit address and pa", schemaType |-> "object"],
      [name |-> "verify_payment_activation", description |-> "Verify an onchain payment fo", schemaType |-> "object"],
      [name |-> "start_stream", description |-> "Start a stream payment for a", schemaType |-> "object"],
      [name |-> "record_stream_tick", description |-> "Record a microtransfer strea", schemaType |-> "object"],
      [name |-> "pause_stream", description |-> "Pause an active stream For S", schemaType |-> "object"],
      [name |-> "resume_stream", description |-> "Resume a paused stream For S", schemaType |-> "object"],
      [name |-> "stop_stream", description |-> "Stop a stream permanently an", schemaType |-> "object"],
      [name |-> "send_job_message", description |-> "Send a message on a job Agen", schemaType |-> "object"],
      [name |-> "get_job_messages", description |-> "Get all messages for a job o", schemaType |-> "object"],
      [name |-> "create_listing", description |-> "Post a job listing on the Hu", schemaType |-> "object"],
      [name |-> "get_listings", description |-> "Browse open job listings on", schemaType |-> "object"],
      [name |-> "get_listing", description |-> "Get detailed information abo", schemaType |-> "object"],
      [name |-> "get_listing_applications", description |-> "View applications for a list", schemaType |-> "object"],
      [name |-> "make_listing_offer", description |-> "Make a job offer to a listin", schemaType |-> "object"],
      [name |-> "cancel_listing", description |-> "Cancel an open listing All p", schemaType |-> "object"],
      [name |-> "get_promo_status", description |-> "Check the launch promo statu", schemaType |-> "object"],
      [name |-> "claim_free_pro_upgrade", description |-> "Claim a free PRO tier upgrad", schemaType |-> "object"]
    >>

\* As HandledTools, without the handler of leave_review.
HandledTools_WithoutLeaveReview ==
    {
     "search_humans", "get_human", "register_agent", "get_agent_profile",
     "verify_agent_domain", "create_job_offer", "get_job_status",
     "mark_job_paid", "check_humanity_status", "get_human_profile",
     "request_activation_code", "verify_social_activation",
     "get_activation_status", "get_payment_activation",
     "verify_payment_activation", "start_stream", "record_stream_tick",
     "pause_stream", "resume_stream", "stop_stream", "send_job_message",
     "get_job_messages", "create_listing", "get_listings", "get_listing",
     "get_listing_applications", "make_listing_offer", "cancel_listing",
     "get_promo_status", "claim_free_pro_upgrade"
    }

\* The names the call handler compares the tool's name with, in its chain of
\* if (name === '...').
HandledTools ==
    {
     "search_humans", "get_human", "register_agent", "get_agent_profile",
     "verify_agent_domain", "create_job_offer", "get_job_status",
     "mark_job_paid", "check_humanity_status", "get_human_profile",
     "request_activation_code", "verify_social_activation",
     "get_activation_status", "get_payment_activation",
     "verify_payment_activation", "start_stream", "record_stream_tick",
     "pause_stream", "resume_stream", "stop_stream", "send_job_message",
     "get_job_messages", "create_listing", "get_listings", "get_listing",
     "get_listing_applications", "make_listing_offer", "cancel_listing",
     "get_promo_status", "claim_free_pro_upgrade", "leave_review"
    }

\* Names a tools/call can carry: the listed ones, some of the older six-tool
\* server's spelling variants, and names of no tool.
ToolNames ==
    HandledTools \cup {ListedTools[i].name : i \in 1..Len(ListedTools)}
    \cup {"nonexistent_tool", "", "Search_Humans", "get_humans", "delete_job"}

\* tools/call: a name with no handler falls through the chain to
\* return { content: `Unknown tool: ${name}`, isError: true }.
CallToolFallsThrough(name) == name \notin HandledTools

UnknownToolResult(name) == [isError |-> TRUE, text |-> "Unknown tool: " \o name]

ListedNames == {ListedTools[i].name : i \in 1..Len(ListedTools)}

C32_ErrorMeansNoJob ==
    \A k \in AllKeys, o \in Offers, b \in BOOLEAN :
        /\ CreateJobOfferCall(k, o, b).result.isError
               => CreateJobOfferCall(k, o, b).job = job
        /\ k \in Keys /\ BackendCreateJob(agents, job, k, FALSE, o).res.ok
               => ~CreateJobOfferCall(k, o, b).result.isError

(***************************************************************************)
(* create_job_offer for a Human who set a maximum offer distance.          *)
(***************************************************************************)

\* The agent_lat / agent_lng arguments: absent, a place within the Human's
\* maximum offer distance, a place beyond it.
Coordinates == {"NONE", "NEAR", "FAR"}

\* What the request body carries of them: body: JSON.stringify({ humanId,
\* agentId, agentName, title, ..., callbackSecret }) has no agentLat and no
\* agentLng.
CreateJobOfferBodyCoordinates(coords) == "NONE"

\* The distance filter of Create; limited: the Human set a maximum offer
\* distance.
BackendDistanceCode(limited, coords) ==
    IF ~limited THEN "OK"
    ELSE IF coords = "NONE" THEN "COORDINATES_REQUIRED"
    ELSE IF coords = "FAR" THEN "OUT_OF_RANGE"
    ELSE "OK"

\* create_job_offer called with coordinates: the permission, quota and price
\* checks of Create, then the distance filter on what the body carries.
CreateJobOfferAtCall(key, offer, coords, limited, humanOk) ==
    LET req == Request("POST", "/api/jobs", key)
        code == BackendDistanceCode(limited, CreateJobOfferBodyCoordinates(coords))
    IN  IF KeyMissing(key) \/ code = "OK"
           \/ ~BackendCreateJob(agents, job, req.agentKey, req.payment, offer).res.ok
        THEN CreateJobOfferCall(key, offer, humanOk)
        ELSE Outcome(ErrorResult(CreateJobOfferError(ErrorResponse(code))), <<req>>,
                     ErrorResponse(code), agents, job, stream)

\* C33: when the caller supplies agent_lat and agent_lng the request carries
\* them, so that an offer (otherwise acceptable) to a Human with a maximum
\* offer distance fails OUT_OF_RANGE exactly when the coordinates exceed it,
\* fails COORDINATES_REQUIRED only when none were supplied, and succeeds
\* when they are within range.
C33_CoordinatesDecide ==
    \A k \in Keys, o \in Offers, c \in Coordinates :
        BackendCreateJob(agents, job, k, FALSE, o).res.ok
            => LET out == CreateJobOfferAtCall(k, o, c, TRUE, TRUE)
               IN  /\ CreateJobOfferBodyCoordinates(c) = c
                   /\ out.response.code = "OUT_OF_RANGE" <=> c = "FAR"
                   /\ out.response.code = "COORDINATES_REQUIRED" => c = "NONE"
                   /\ c = "NEAR" => ~out.result.isError

\* C34: every mutating request the client sends for an agent that calls
\* with its key, those of mark_job_paid and leave_review in particular,
\* carries that key, and an agent that is PENDING or is not the Job's hiring
\* agent cannot mark the Job paid or attach a review to it.
C34_WritesCarryCredential ==
    \A c \in Agents :
        \A out \in MutatingCalls(c) :
            /\ \A i \in C28_Writes(out.requests) :
                   out.requests[i].agentKey = KeyOf(c)
            /\ agents[c].status = "PENDING" \/ c # job.agentId
                   => /\ out.job.status = "PAID" => job.status = "PAID"
                      /\ out.job.review = job.review

(***************************************************************************)
(* get_job_status: the Job's status with the guidance for the next step.   *)
(***************************************************************************)

\* switch (job.status) { ... }.  hasSummary: the response has a
\* streamSummary (its method is the Job's streamMethod); the handler reads
\* it as optional.
GetJobStatusNextStep(j, hasSummary) ==
    CASE j.status = "PENDING" -> "Waiting for the human to accept or reject."
      [] j.status = "ACCEPTED" ->
            IF j.paymentMode = "STREAM"
            THEN IF j.streamMethod = "SUPERFLUID"
                 THEN "Human accepted! Create a Superfluid flow to their wallet, "
                      \o "then use start_stream with your sender address to verify."
                 ELSE "Human accepted! Use start_stream to lock the network/token "
                      \o "and start sending payments."
            ELSE "Human accepted! Send USDC to their wallet, then use "
                 \o "mark_job_paid with the transaction hash."
      [] j.status = "REJECTED" -> "The human rejected this offer."
      [] j.status = "PAID" -> "Payment recorded. Work is in progress."
      [] j.status = "STREAMING" ->
            IF hasSummary /\ j.streamMethod = "SUPERFLUID"
            THEN "Stream active via Superfluid. "
                 \o "Use pause_stream or stop_stream to manage."
            ELSE "Stream active via micro-transfer. "
                 \o "Use record_stream_tick to submit each payment."
      [] j.status = "PAUSED" ->
            "Stream is paused. Use resume_stream to continue or "
            \o "stop_stream to end permanently."
      [] j.status = "COMPLETED" ->
            IF j.review # 0 THEN "Review submitted: " \o ToString(j.review) \o "/5 stars"
            ELSE "Job complete! You can now use leave_review to rate the human."
      [] OTHER -> ""

\* get_job_status: read-only, no credential.
GetJobStatusCall(hasSummary) ==
    LET req == Request("GET", "/api/jobs/:id", NoKey)
    IN  [result |-> IF job.status = "NONE" THEN ErrorResult("Job not found: j1")
                    ELSE SuccessResult("**Job Status** Status: " \o job.status
                                       \o " Next Step: "
                                       \o GetJobStatusNextStep(job, hasSummary)),
         requests |-> <<req>>]

\* The result of get_job_status names the tool.
C35_Names(hasSummary, tool) ==
    C30_Contains(GetJobStatusCall(hasSummary).result.text, tool)

\* C35: for every Job status and payment mode the guidance of get_job_status
\* names only operations whose precondition holds: mark_job_paid only for an
\* ACCEPTED ONE_TIME Job, start_stream only for an ACCEPTED STREAM Job,
\* record_stream_tick only for a STREAMING MICRO_TRANSFER Job (never for a
\* SUPERFLUID Job, also when the response has no stream summary),
\* resume_stream only for a PAUSED Job, leave_review only for a COMPLETED
\* Job without a review.
C35_GuidanceIsLegal ==
    \A b \in BOOLEAN :
        /\ C35_Names(b, "mark_job_paid")
               => job.status = "ACCEPTED" /\ job.paymentMode = "ONE_TIME"
        /\ C35_Names(b, "start_stream")
               => job.status = "ACCEPTED" /\ job.paymentMode = "STREAM"
        /\ C35_Names(b, "record_stream_tick")
               => job.status = "STREAMING" /\ job.streamMethod = "MICRO_TRANSFER"
        /\ C35_Names(b, "resume_stream") => job.status = "PAUSED"
        /\ C35_Names(b, "leave_review")
               => job.status = "COMPLETED" /\ job.review = 0

\* C36: the success result of create_job_offer directs the caller only to
\* payment operations that are legal for the created Job's payment mode:
\* it names mark_job_paid only when the Job is ONE_TIME, and for a Job
\* created with payment_mode STREAM it names start_stream.
C36_OfferGuidanceFitsMode ==
    \A k \in Keys, o \in Offers :
        LET out == CreateJobOfferCall(k, o, TRUE)
        IN  ~out.result.isError
                => /\ C30_Contains(out.result.text, "mark_job_paid")
                          => o.paymentMode = "ONE_TIME"
                   /\ o.paymentMode = "STREAM"
                          => C30_Contains(out.result.text, "start_stream")

(***************************************************************************)
(* Two mark_job_paid invocations in flight on one ACCEPTED ONE_TIME Job:   *)
(* the collaborator serves their requests one after the other, in either   *)
(* order.                                                                  *)
(***************************************************************************)

\* The payment_tx_hash arguments of the two invocations.
RaceTxHashes == {"0xa", "0xb"}

\* The invocation of slot s is made, once, while the Job is ACCEPTED, with an
\* amount of at least the agreed price.
RaceSends(caller, s, txHash, amount) ==
    /\ job.status = "ACCEPTED"
    /\ job.paymentMode = "ONE_TIME"
    /\ amount >= job.priceUsdc
    /\ call[s].result = NoResult
    /\ MarkJobPaidSends(caller, s, txHash, amount)

RaceNext ==
    \/ \E c \in Agents, k \in AllKeys : RequestActivationCode(c, k)
    \/ \E c \in Agents, k \in AllKeys, b \in BOOLEAN :
           VerifySocialActivation(c, k, b)
    \/ \E c \in Agents, k \in AllKeys, o \in OneTimeOffers :
           CreateJobOffer(c, k, o, TRUE)
    \/ HumanAccept
    \/ \E c \in Agents, s \in Slots, t \in RaceTxHashes, amt \in Prices :
           RaceSends(c, s, t, amt)
    \/ \E s \in Slots : CollaboratorAnswers(s)
    \/ \E s \in Slots : MarkJobPaidReturns(s)

RaceSpec == Init /\ [][RaceNext]_vars

\* The invocation of slot s has returned.
C37_Returned(s) == call[s].phase = "idle" /\ call[s].result # NoResult

C38_OfferedStep == \A h \in Humans : apps[h] = "OFFERED" => apps'[h] = "OFFERED"

KeyInFlight(key) ==
    LET busy == {s \in Slots : call[s].phase # "idle"}
    IN  IF busy = {} THEN key ELSE call[CHOOSE s \in busy : TRUE].agentKey

GetActivationStatusRequest_SharedKey(key) ==
    Request("GET", "/api/agents/activate/status", KeyInFlight(key))

\* fetch(.../api/agents/activate/status, { headers: { 'X-Agent-Key': agentKey } })
GetActivationStatusRequest(key) ==
    Request("GET", "/api/agents/activate/status", key)

\* GET /api/agents/activate/status: the status and tier the backend holds
\* for the agent of the key.  omitNone: the answer leaves the tier field out
\* when the agent has no tier.
BackendActivationStatus(ag, key, omitNone) ==
    IF CredentialCode(ag, key) # "OK"
    THEN [res |-> ErrorResponse(CredentialCode(ag, key)), body |-> NoBody]
    ELSE [res |-> OkResponse(200, Absent),
          body |-> [status |-> ag[AgentOfKey(key)].status,
                    tier |-> IF omitNone /\ ag[AgentOfKey(key)].tier = "NONE"
                             THEN Absent
                             ELSE ag[AgentOfKey(key)].tier]]

\* **Status:** ${result.status}  **Tier:** ${result.tier || 'BASIC'}
GetActivationStatusResult(res, body) ==
    IF ~res.ok
    THEN ErrorResult(Or(res.error, ApiError(res)))
    ELSE SuccessResult("**Activation Status** **Status:** " \o body.status
                       \o " **Tier:** " \o Or(body.tier, "BASIC"))

GetActivationStatusCall(key, omitNone) ==
    LET req == GetActivationStatusRequest(key)
        out == BackendActivationStatus(agents, req.agentKey, omitNone)
    IN  IF KeyMissing(key)
        THEN [result |-> ErrorResult("agent_key is required."),
              requests |-> <<>>]
        ELSE [result |-> GetActivationStatusResult(out.res, out.body),
              requests |-> <<req>>]

\* The handler runs up to its await: it throws without a key, else it has
\* issued its request.
GetActivationStatusSends(caller, s, key) ==
    /\ caller \in Agents
    /\ call[s].phase = "idle"
    /\ call' = [call EXCEPT ![s] =
                   IF KeyMissing(key)
                   THEN [NoCall EXCEPT
                            !.result = ErrorResult("agent_key is required.")]
                   ELSE [NoCall EXCEPT
                            !.phase = "waiting", !.agentKey = key,
                            !.requests = <<GetActivationStatusRequest(key)>>]]
    /\ UNCHANGED <<agents, job, stream, flow, activation, listing, apps, human>>

\* The collaborator answers the request of slot s for the key it carries.
StatusAnswers(s, omitNone) ==
    /\ call[s].phase = "waiting"
    /\ LET out == BackendActivationStatus(agents, call[s].requests[1].agentKey,
                                          omitNone)
       IN  call' = [call EXCEPT ![s].phase = "answered", ![s].res = out.res,
                                ![s].body = out.body]
    /\ UNCHANGED <<agents, job, stream, flow, activation, listing, apps, human>>

\* return { content: [...] }, or the catch block's error result; the run of
\* the handler ends and its consts with it.
GetActivationStatusReturns(s) ==
    /\ call[s].phase \in {"answered", "failed"}
    /\ call' = [call EXCEPT ![s] =
                   [NoCall EXCEPT !.result =
                       IF call[s].phase = "failed"
                       THEN ErrorResult("fetch failed")
                       ELSE GetActivationStatusResult(call[s].res,
                                                      call[s].body)]]
    /\ UNCHANGED <<agents, job, stream, flow, activation, listing, apps, human>>

StatusNext ==
    \/ \E c \in Agents, k \in AllKeys : RequestActivationCode(c, k)
    \/ \E c \in Agents, k \in AllKeys, b \in BOOLEAN :
           VerifySocialActivation(c, k, b)
    \/ \E c \in Agents, s \in Slots, k \in AllKeys :
           GetActivationStatusSends(c, s, k)
    \/ \E s \in Slots, b \in BOOLEAN : StatusAnswers(s, b)
    \/ \E s \in Slots : FetchRejects(s)
    \/ \E s \in Slots : GetActivationStatusReturns(s)

StatusSpec == Init /\ [][StatusNext]_vars

\* The requests of the tools that take an agent_key, invoked with key k.
C39_RequestsWith(k) ==
    {GetActivationStatusCall(k, FALSE).requests,
     GetHumanProfileCall(human, k).requests,
     VerifyAgentDomainCall(k, TRUE).requests,
     RequestActivationCodeCall(k).requests,
     VerifySocialActivationCall(k, TRUE).requests,
     GetPaymentActivationCall(k).requests,
     ClaimFreeProUpgradeCall(k).requests,
     GetJobMessagesCall(k).requests,
     PauseStreamCall(k).requests,
     ResumeStreamCall(k).requests,
     StopStreamCall(k).requests,
     CancelListingCall(k).requests}
    \cup {CreateJobOfferCall(k, o, TRUE).requests : o \in OneTimeOffers}
    \cup {MakeListingOfferCall(k, h).requests : h \in Humans}

\* An answer is about the agent whose key the invocation was given.
C39_AnswerStep ==
    \A s \in Slots :
        call[s].phase = "waiting" /\ call'[s].phase = "answered"
        /\ call'[s].res.ok
            => call'[s].body.status = agents[AgentOfKey(call[s].agentKey)].status

\* C39: the credential a request carries is the agent_key argument of the
\* invocation that issued it, whatever other invocations are in flight, and
\* nothing of the key is left once the invocation has returned.  A tool that
\* takes an agent_key sends it with its first request; a public read that
\* follows (the Human's name, after an offer) carries no credential at all.
C39_KeyThreaded ==
    /\ [](/\ \A s \in Slots :
                 IF call[s].phase = "idle"
                 THEN call[s].agentKey = NoKey /\ call[s].requests = <<>>
                 ELSE /\ call[s].agentKey \in Keys
                      /\ Len(call[s].requests) = 1
                      /\ call[s].requests[1].agentKey = call[s].agentKey
          /\ \A k \in Keys : \A reqs \in C39_RequestsWith(k) :
                 /\ reqs # <<>> => reqs[1].agentKey = k
                 /\ \A i \in 1..Len(reqs) : reqs[i].agentKey \in {k, NoKey})
    /\ [][C39_AnswerStep]_vars

\* Invocations for a1 and for a2 are answered at once, each about its own
\* agent: a2 is ACTIVE, a1 still PENDING.
C39_Witness ==
    /\ call[1].phase = "answered" /\ call[1].agentKey = KeyOf("a1")
    /\ call[2].phase = "answered" /\ call[2].agentKey = KeyOf("a2")
    /\ call[1].body.status = "PENDING" /\ call[2].body.status = "ACTIVE"
    /\ call[1].requests[1].agentKey = KeyOf("a1")
    /\ call[2].requests[1].agentKey = KeyOf("a2")

\* C40: get_activation_status reports the tier the collaborator holds: an
\* agent that is PENDING with tier NONE, or with no tier in the answer, is
\* never reported with tier BASIC.
C40_TierAsHeld ==
    \A a \in Agents, omitNone \in BOOLEAN :
        agents[a].status = "PENDING" /\ agents[a].tier = "NONE"
            => ~C30_Contains(GetActivationStatusCall(KeyOf(a), omitNone).result.text,
                             "**Tier:** BASIC")

====
